---- MODULE Spec2Model ----
(***************************************************************************)
(* A model of the containerised code-execution broker: the container     *)
(* controller (crates/container-api, crates/containers-api), the execution *)
(* broker (crates/repl-api) with its rate limiter, and the service         *)
(* registry with its bootstrap client (crates/service-registry).  Each     *)
(* subsystem has its own                                                   *)
(* specification over its own variables; the other subsystems' variables   *)
(* stay at their initial values.                                           *)
(***************************************************************************)
EXTENDS Integers, Sequences, FiniteSets, TLC

(***************************************************************************)
(* Bounds of the model.                                                    *)
(***************************************************************************)
\* progress items a pull stream delivers before it ends
MaxPullItems == 2
\* chunks the attached output stream delivers before it ends
MaxChunks == 2
\* events the controller's response body holds
MaxUpstreamEvents == 2
\* keep-alive requests the registry answers with 500 in one behaviour
MaxMisses == 2
\* leases the store grants in one behaviour
MaxLeases == 2
\* seconds a request of the bootstrap client may take to reach the registry
MaxLatency == 1
\* the limiter's clock ticks Resolution times a second, and a token is
\* counted in Resolution parts
Resolution == 2
\* the largest burst_size a limiter is built with
MaxBurst == 2
\* requests the limiter receives in one behaviour
MaxRequests == 3
\* dependencies of one call of the command builders
MaxDeps == 2

VARIABLES
    \* ---- container controller (one create request) ----
    cmode,      \* which handler serves the request: "unary", "stream", "legacy"
    cpc,        \* the handler's position (the call it issues next)
    pullLeft,   \* progress items the pull stream still holds
    chunksLeft, \* chunks the attached stream still holds
    cstate,     \* the container in the runtime: none/created/running/exited/removed
    createOpts, \* the options the handler passed to the runtime's create
    rtcalls,    \* runtime calls the handler has issued, in order
    events,     \* SSE events the streaming handler has yielded, in order
    chunksRead, \* chunks read from the attached stream, in order
    cresp,      \* the unary response: 0 (none yet), 200 or 500
    \* ---- execution broker (one execute request) ----
    bmode,      \* the endpoint asked: "unary" (execute) or "stream" (execute/stream)
    bpc,        \* the handler's position
    bpayload,   \* the ExecuteReplRequest
    bverdict,   \* the CodeValidationResult of validate_code
    blog,       \* what the request has gone through, in order
    bstatus,    \* the HTTP status of the response: 0 (none yet), 200, 403, 429, 500
    bevents,    \* SSE events the streaming handler has yielded, in order
    upEvents,   \* the events the controller's response body is made of
    upstream,   \* the bytes of that body the broker has not received yet
    blookup,    \* the registry's answer to the lookup, while get_service_endpoint
                \* holds it
    benv,       \* CONTAINERS_API_URL as the handler read it, or "unset"
    burl,       \* the controller URL the handler uses
    bsuccess,   \* the success field of the unary response: "unset", "true", "false"
    \* ---- service registry, its store and one bootstrap client ----
    leases,     \* the store's leases: id -> [issued, ttl (seconds left), refreshed]
    kv,         \* the store's keys: service key -> [lease, info], or NoEntry
    lastReg,    \* service key -> the latest register of it: [lease, age, info],
                \* age in seconds and counted up to LeaseTTL
    deregd,     \* service key -> whether it was deregistered after that register
    kpc,        \* the bootstrap client: "init" (about to send a registration
                \* request), "retry_sleep", "panicked", "sleep" (the keep-alive
                \* loop), "stopped" (the loop has ended)
    attempts,   \* registration requests bootstrap_service has sent
    kLease,     \* the lease_id bootstrap_service got
    kSleep,     \* seconds the client's current sleep still lasts
    kLate,      \* seconds the loop's request has been under way
    kMissed,    \* keep-alive attempts that failed: [transport, server]
    kaReply,    \* the registry's answer to the latest POST /api/registry/keepalive:
                \* [status, extended (whether the store extended the lease)]
    \* ---- the registry service's lock on its ServiceRegistry ----
    mutex,      \* the task that holds the Mutex<ServiceRegistry>, or "free"
    waitq,      \* the tasks waiting in registry.lock().await, first come first
    task,       \* task -> [pc, left (store calls it has still to make), failed]
    \* ---- rate limiter ----
    limiter,    \* the RateLimiter: [capacity, requests_per_minute], or NoLimiter
    buckets,    \* IP -> its TokenBucket [tokens, idle (ticks since last_refill)],
                \* or NoBucket
    decisions,  \* IP -> what the middleware answered its requests, in order
    since,      \* IP -> ticks since its first request, counted up to SinceCap
    swept,      \* whether the cleanup task was the last to act on the map
    reference,  \* IP -> the bucket of a limiter that gets the same requests
                \* at the same times and never evicts
    \* ---- one TokenBucket, called directly ----
    tbparams,   \* what TokenBucket::new got: [capacity, requests_per_minute],
                \* refill_rate being requests_per_minute / 60; or NoLimiter
    tb,         \* the bucket: [tokens, idle (ticks since last_refill)]
    tbcall,     \* the latest call on it: [fn, x (the tokens asked for), tokens0
                \* and elapsed (the bucket's tokens and idle ticks before the
                \* call), ok, wait]
    \* ---- command builders of Language ----
    call,       \* the latest call: [fn, language, code, dependencies]
    ret         \* what it returned

cvars == <<cmode, cpc, pullLeft, chunksLeft, cstate, createOpts, rtcalls,
           events, chunksRead, cresp>>

bvars == <<bmode, bpc, bpayload, bverdict, blog, bstatus, bevents, upEvents, upstream,
           blookup, benv, burl, bsuccess>>

rvars == <<leases, kv, lastReg, deregd, kpc, attempts, kLease, kSleep, kLate, kMissed,
           kaReply>>

mvars == <<mutex, waitq, task>>

lvars == <<limiter, buckets, decisions, since, swept, reference>>

tvars == <<tbparams, tb, tbcall>>

xvars == <<call, ret>>

vars == <<cvars, bvars, rvars, mvars, lvars, tvars, xvars>>

\* what an action of one subsystem leaves alone
notController == <<bvars, rvars, mvars, lvars, tvars, xvars>>
notBroker == <<cvars, rvars, mvars, lvars, tvars, xvars>>
notRegistry == <<cvars, bvars, mvars, lvars, tvars, xvars>>
notLock == <<cvars, bvars, rvars, lvars, tvars, xvars>>
notLimiter == <<cvars, bvars, rvars, mvars, tvars, xvars>>
notBucket == <<cvars, bvars, rvars, mvars, lvars, xvars>>
notCommand == <<cvars, bvars, rvars, mvars, lvars, tvars>>

(***************************************************************************)
(* Container controller                                                    *)
(***************************************************************************)
NoOpts == [net |-> "unset", pid |-> "unset", ipc |-> "unset",
           systemd |-> "unset", sdnotify |-> "unset"]

\* ContainerCreateOpts built by container-api's create_container
UnaryCreateOpts ==
    [net |-> "private", pid |-> "private", ipc |-> "private",
     systemd |-> "false", sdnotify |-> "ignore"]

\* ContainerCreateOpts built by container-api's create_container_stream
StreamCreateOpts ==
    [net |-> "private", pid |-> "private", ipc |-> "private",
     systemd |-> "false", sdnotify |-> "ignore"]

\* ContainerCreateOpts built by containers-api's create_container
LegacyCreateOpts ==
    [net |-> "host", pid |-> "host", ipc |-> "host",
     systemd |-> "false", sdnotify |-> "ignore"]

\* chunks the attached stream can deliver: an empty one and a non-empty one
ChunkTexts == {"", "a", "b"}

ErrorEvent(what) == [type |-> "data", text |-> "ERROR", what |-> what]
DataEvent(chunk) == [type |-> "data", text |-> chunk, what |-> "output"]
DoneEvent == [type |-> "done", text |-> "Container execution completed", what |-> "done"]

Count(seq, x) == Cardinality({i \in DOMAIN seq : seq[i] = x})

CInit ==
    /\ cmode = "none"
    /\ cpc = "idle"
    /\ pullLeft = 0
    /\ chunksLeft = 0
    /\ cstate = "none"
    /\ createOpts = NoOpts
    /\ rtcalls = <<>>
    /\ events = <<>>
    /\ chunksRead = <<>>
    /\ cresp = 0

\* A create request arrives at one of the handlers.  The runtime's behaviour
\* for this request (how many progress items the pull holds, how many chunks
\* the container writes) is fixed here; failures are chosen step by step.
ReceiveCreate ==
    /\ cpc = "idle"
    /\ \E m \in {"unary", "stream", "legacy"}, n \in 0..MaxPullItems, k \in 0..MaxChunks :
          /\ cmode' = m
          /\ pullLeft' = n
          /\ chunksLeft' = IF m = "stream" THEN k ELSE 0
    /\ cpc' = "connect"
    /\ UNCHANGED <<cstate, createOpts, rtcalls, events, chunksRead, cresp>>
    /\ UNCHANGED notController

----------------------------------------------------------------------------
\* create_container (container-api): the unary handler

\* Podman::new(podman_url).unwrap(), then images.pull(&pull_opts)
UnaryConnect ==
    /\ cmode = "unary" /\ cpc = "connect"
    /\ cpc' = "pull"
    /\ rtcalls' = Append(rtcalls, "pull")
    /\ UNCHANGED <<cmode, pullLeft, chunksLeft, cstate, createOpts, events,
                   chunksRead, cresp>>
    /\ UNCHANGED notController

\* Podman::new fails and unwrap panics: the handler task ends without a response
UnaryConnectPanic ==
    /\ cmode = "unary" /\ cpc = "connect"
    /\ cpc' = "panicked"
    /\ UNCHANGED <<cmode, pullLeft, chunksLeft, cstate, createOpts, rtcalls,
                   events, chunksRead, cresp>>
    /\ UNCHANGED notController

\* an Ok(info) item without an error field
UnaryPullProgress ==
    /\ cmode = "unary" /\ cpc = "pull" /\ pullLeft > 0
    /\ pullLeft' = pullLeft - 1
    /\ UNCHANGED <<cmode, cpc, chunksLeft, cstate, createOpts, rtcalls, events,
                   chunksRead, cresp>>
    /\ UNCHANGED notController

\* an Ok(info) item with an error field, or an Err(e) item: return 500
UnaryPullFail ==
    /\ cmode = "unary" /\ cpc = "pull"
    /\ cpc' = "done" /\ cresp' = 500
    /\ UNCHANGED <<cmode, pullLeft, chunksLeft, cstate, createOpts, rtcalls,
                   events, chunksRead>>
    /\ UNCHANGED notController

\* a handler that goes on to create while the pull stream still holds items
PullEndEarly ==
    /\ cmode = "unary" /\ cpc = "pull"
    /\ cpc' = "create"
    /\ UNCHANGED <<cmode, pullLeft, chunksLeft, cstate, createOpts, rtcalls,
                   events, chunksRead, cresp>>
    /\ UNCHANGED notController

\* the pull stream ended: the handler goes on to create
UnaryPullEnd ==
    /\ cmode = "unary" /\ cpc = "pull" /\ pullLeft = 0
    /\ cpc' = "create"
    /\ UNCHANGED <<cmode, pullLeft, chunksLeft, cstate, createOpts, rtcalls,
                   events, chunksRead, cresp>>
    /\ UNCHANGED notController

UnaryCreateOk ==
    /\ cmode = "unary" /\ cpc = "create"
    /\ rtcalls' = Append(rtcalls, "create")
    /\ createOpts' = UnaryCreateOpts
    /\ cstate' = "created"
    /\ cpc' = "start"
    /\ UNCHANGED <<cmode, pullLeft, chunksLeft, events, chunksRead, cresp>>
    /\ UNCHANGED notController

UnaryCreateFail ==
    /\ cmode = "unary" /\ cpc = "create"
    /\ rtcalls' = Append(rtcalls, "create")
    /\ createOpts' = UnaryCreateOpts
    /\ cpc' = "done" /\ cresp' = 500
    /\ UNCHANGED <<cmode, pullLeft, chunksLeft, cstate, events, chunksRead>>
    /\ UNCHANGED notController

UnaryStartOk ==
    /\ cmode = "unary" /\ cpc = "start"
    /\ rtcalls' = Append(rtcalls, "start")
    /\ cstate' = "running"
    /\ cpc' = "wait"
    /\ UNCHANGED <<cmode, pullLeft, chunksLeft, createOpts, events, chunksRead, cresp>>
    /\ UNCHANGED notController

\* start failed: "Container created but failed to start", return 500
UnaryStartFail ==
    /\ cmode = "unary" /\ cpc = "start"
    /\ rtcalls' = Append(rtcalls, "start")
    /\ cpc' = "done" /\ cresp' = 500
    /\ UNCHANGED <<cmode, pullLeft, chunksLeft, cstate, createOpts, events, chunksRead>>
    /\ UNCHANGED notController

UnaryWaitOk ==
    /\ cmode = "unary" /\ cpc = "wait"
    /\ rtcalls' = Append(rtcalls, "wait")
    /\ cstate' = "exited"
    /\ cpc' = "logs"
    /\ UNCHANGED <<cmode, pullLeft, chunksLeft, createOpts, events, chunksRead, cresp>>
    /\ UNCHANGED notController

\* wait failed: "Error waiting for container to finish", return 500
UnaryWaitFail ==
    /\ cmode = "unary" /\ cpc = "wait"
    /\ rtcalls' = Append(rtcalls, "wait")
    /\ cpc' = "done" /\ cresp' = 500
    /\ UNCHANGED <<cmode, pullLeft, chunksLeft, cstate, createOpts, events, chunksRead>>
    /\ UNCHANGED notController

\* a handler that answers 200 right after the logs, without the clean-up
LogsThenRespond ==
    /\ cmode = "unary" /\ cpc = "logs"
    /\ rtcalls' = Append(rtcalls, "logs")
    /\ cpc' = "done" /\ cresp' = 200
    /\ UNCHANGED <<cmode, pullLeft, chunksLeft, cstate, createOpts, events, chunksRead>>
    /\ UNCHANGED notController

UnaryLogsOk ==
    /\ cmode = "unary" /\ cpc = "logs"
    /\ rtcalls' = Append(rtcalls, "logs")
    /\ cpc' = "remove"
    /\ UNCHANGED <<cmode, pullLeft, chunksLeft, cstate, createOpts, events, chunksRead, cresp>>
    /\ UNCHANGED notController

\* logs failed: "Failed to get container logs", return 500
UnaryLogsFail ==
    /\ cmode = "unary" /\ cpc = "logs"
    /\ rtcalls' = Append(rtcalls, "logs")
    /\ cpc' = "done" /\ cresp' = 500
    /\ UNCHANGED <<cmode, pullLeft, chunksLeft, cstate, createOpts, events, chunksRead>>
    /\ UNCHANGED notController

\* let _ = container.remove().await; then 200 {id, message, output}.
\* The result of remove is discarded: the runtime may or may not have removed it.
UnaryRemove ==
    /\ cmode = "unary" /\ cpc = "remove"
    /\ rtcalls' = Append(rtcalls, "remove")
    /\ \E ok \in BOOLEAN : cstate' = IF ok THEN "removed" ELSE cstate
    /\ cpc' = "done" /\ cresp' = 200
    /\ UNCHANGED <<cmode, pullLeft, chunksLeft, createOpts, events, chunksRead>>
    /\ UNCHANGED notController

----------------------------------------------------------------------------
\* create_container_stream (container-api): the streaming handler, a
\* generator that is suspended at every await and at every yield.

\* the generator yields `ev` and returns: the stream ends after it
YieldAndReturn(ev) ==
    /\ events' = Append(events, ev)
    /\ cpc' = "end"

\* Podman::new failed: ERROR event, return
StreamConnectFail ==
    /\ cmode = "stream" /\ cpc = "connect"
    /\ YieldAndReturn(ErrorEvent("connect"))
    /\ UNCHANGED <<cmode, pullLeft, chunksLeft, cstate, createOpts, rtcalls,
                   chunksRead, cresp>>
    /\ UNCHANGED notController

StreamConnect ==
    /\ cmode = "stream" /\ cpc = "connect"
    /\ cpc' = "pull"
    /\ rtcalls' = Append(rtcalls, "pull")
    /\ UNCHANGED <<cmode, pullLeft, chunksLeft, cstate, createOpts, events,
                   chunksRead, cresp>>
    /\ UNCHANGED notController

StreamPullProgress ==
    /\ cmode = "stream" /\ cpc = "pull" /\ pullLeft > 0
    /\ pullLeft' = pullLeft - 1
    /\ UNCHANGED <<cmode, cpc, chunksLeft, cstate, createOpts, rtcalls, events,
                   chunksRead, cresp>>
    /\ UNCHANGED notController

\* a pull failure that yields the ERROR event and goes on to the done event
PullFailThenDone ==
    /\ cmode = "stream" /\ cpc = "pull"
    /\ events' = Append(events, ErrorEvent("pull"))
    /\ cpc' = "yield_done"
    /\ UNCHANGED <<cmode, pullLeft, chunksLeft, cstate, createOpts, rtcalls,
                   chunksRead, cresp>>
    /\ UNCHANGED notController

\* an item with an error field, or a transport error: ERROR event, return
StreamPullFail ==
    /\ cmode = "stream" /\ cpc = "pull"
    /\ YieldAndReturn(ErrorEvent("pull"))
    /\ UNCHANGED <<cmode, pullLeft, chunksLeft, cstate, createOpts, rtcalls,
                   chunksRead, cresp>>
    /\ UNCHANGED notController

StreamPullEnd ==
    /\ cmode = "stream" /\ cpc = "pull" /\ pullLeft = 0
    /\ cpc' = "create"
    /\ UNCHANGED <<cmode, pullLeft, chunksLeft, cstate, createOpts, rtcalls,
                   events, chunksRead, cresp>>
    /\ UNCHANGED notController

StreamCreateOk ==
    /\ cmode = "stream" /\ cpc = "create"
    /\ rtcalls' = Append(rtcalls, "create")
    /\ createOpts' = StreamCreateOpts
    /\ cstate' = "created"
    /\ cpc' = "attach"
    /\ UNCHANGED <<cmode, pullLeft, chunksLeft, events, chunksRead, cresp>>
    /\ UNCHANGED notController

StreamCreateFail ==
    /\ cmode = "stream" /\ cpc = "create"
    /\ rtcalls' = Append(rtcalls, "create")
    /\ createOpts' = StreamCreateOpts
    /\ YieldAndReturn(ErrorEvent("create"))
    /\ UNCHANGED <<cmode, pullLeft, chunksLeft, cstate, chunksRead, cresp>>
    /\ UNCHANGED notController

StreamAttachOk ==
    /\ cmode = "stream" /\ cpc = "attach"
    /\ rtcalls' = Append(rtcalls, "attach")
    /\ cpc' = "start"
    /\ UNCHANGED <<cmode, pullLeft, chunksLeft, cstate, createOpts, events,
                   chunksRead, cresp>>
    /\ UNCHANGED notController

\* a failed attach that yields the ERROR event and goes on to start
AttachFailThenStart ==
    /\ cmode = "stream" /\ cpc = "attach"
    /\ rtcalls' = Append(rtcalls, "attach")
    /\ events' = Append(events, ErrorEvent("attach"))
    /\ cpc' = "start"
    /\ UNCHANGED <<cmode, pullLeft, chunksLeft, cstate, createOpts, chunksRead, cresp>>
    /\ UNCHANGED notController

\* attach failed: ERROR event, return
StreamAttachFail ==
    /\ cmode = "stream" /\ cpc = "attach"
    /\ rtcalls' = Append(rtcalls, "attach")
    /\ YieldAndReturn(ErrorEvent("attach"))
    /\ UNCHANGED <<cmode, pullLeft, chunksLeft, cstate, createOpts, chunksRead, cresp>>
    /\ UNCHANGED notController

StreamStartOk ==
    /\ cmode = "stream" /\ cpc = "start"
    /\ rtcalls' = Append(rtcalls, "start")
    /\ cstate' = "running"
    /\ cpc' = "read"
    /\ UNCHANGED <<cmode, pullLeft, chunksLeft, createOpts, events, chunksRead, cresp>>
    /\ UNCHANGED notController

\* start failed: ERROR event, return
StreamStartFail ==
    /\ cmode = "stream" /\ cpc = "start"
    /\ rtcalls' = Append(rtcalls, "start")
    /\ YieldAndReturn(ErrorEvent("start"))
    /\ UNCHANGED <<cmode, pullLeft, chunksLeft, cstate, createOpts, chunksRead, cresp>>
    /\ UNCHANGED notController

\* a read loop that puts the newest chunk in front of the events yielded so far
ReadChunkNewestFirst ==
    /\ cmode = "stream" /\ cpc = "read" /\ chunksLeft > 0
    /\ \E c \in ChunkTexts :
          /\ chunksRead' = Append(chunksRead, c)
          /\ events' = IF c # "" THEN <<DataEvent(c)>> \o events ELSE events
    /\ chunksLeft' = chunksLeft - 1
    /\ UNCHANGED <<cmode, cpc, pullLeft, cstate, createOpts, rtcalls, cresp>>
    /\ UNCHANGED notController

\* attach_stream.next() gives Ok(chunk): a non-empty chunk is yielded as data
StreamReadChunk ==
    /\ cmode = "stream" /\ cpc = "read" /\ chunksLeft > 0
    /\ \E c \in ChunkTexts :
          /\ chunksRead' = Append(chunksRead, c)
          /\ events' = IF c # "" THEN Append(events, DataEvent(c)) ELSE events
    /\ chunksLeft' = chunksLeft - 1
    /\ UNCHANGED <<cmode, cpc, pullLeft, cstate, createOpts, rtcalls, cresp>>
    /\ UNCHANGED notController

\* attach_stream.next() gives Err(e): ERROR event, break out of the loop
StreamReadFail ==
    /\ cmode = "stream" /\ cpc = "read"
    /\ events' = Append(events, ErrorEvent("read"))
    /\ cpc' = "wait"
    /\ UNCHANGED <<cmode, pullLeft, chunksLeft, cstate, createOpts, rtcalls,
                   chunksRead, cresp>>
    /\ UNCHANGED notController

\* attach_stream.next() gives None: the loop ends
StreamReadEnd ==
    /\ cmode = "stream" /\ cpc = "read" /\ chunksLeft = 0
    /\ cpc' = "wait"
    /\ UNCHANGED <<cmode, pullLeft, chunksLeft, cstate, createOpts, rtcalls,
                   events, chunksRead, cresp>>
    /\ UNCHANGED notController

\* let _ = container.wait(..).await
StreamWait ==
    /\ cmode = "stream" /\ cpc = "wait"
    /\ rtcalls' = Append(rtcalls, "wait")
    /\ \E ok \in BOOLEAN : cstate' = IF ok THEN "exited" ELSE cstate
    /\ cpc' = "remove"
    /\ UNCHANGED <<cmode, pullLeft, chunksLeft, createOpts, events, chunksRead, cresp>>
    /\ UNCHANGED notController

\* let _ = container.remove().await
StreamRemove ==
    /\ cmode = "stream" /\ cpc = "remove"
    /\ rtcalls' = Append(rtcalls, "remove")
    /\ \E ok \in BOOLEAN : cstate' = IF ok THEN "removed" ELSE cstate
    /\ cpc' = "yield_done"
    /\ UNCHANGED <<cmode, pullLeft, chunksLeft, createOpts, events, chunksRead, cresp>>
    /\ UNCHANGED notController

\* yield Event::default().event("done"), then the generator ends
StreamDone ==
    /\ cmode = "stream" /\ cpc = "yield_done"
    /\ YieldAndReturn(DoneEvent)
    /\ UNCHANGED <<cmode, pullLeft, chunksLeft, cstate, createOpts, rtcalls,
                   chunksRead, cresp>>
    /\ UNCHANGED notController

\* positions at which the generator is suspended (an await or a yield)
StreamSuspended ==
    {"connect", "pull", "create", "attach", "start", "read", "wait", "remove",
     "yield_done"}

\* The HTTP client disconnects: the response body, and with it the suspended
\* generator, is dropped; none of its remaining code runs.
ClientDisconnect ==
    /\ cmode = "stream" /\ cpc \in StreamSuspended
    /\ cpc' = "dropped"
    /\ UNCHANGED <<cmode, pullLeft, chunksLeft, cstate, createOpts, rtcalls,
                   events, chunksRead, cresp>>
    /\ UNCHANGED notController

----------------------------------------------------------------------------
\* create_container (containers-api): the older controller binary

LegacyConnect ==
    /\ cmode = "legacy" /\ cpc = "connect"
    /\ cpc' = "pull"
    /\ rtcalls' = Append(rtcalls, "pull")
    /\ UNCHANGED <<cmode, pullLeft, chunksLeft, cstate, createOpts, events,
                   chunksRead, cresp>>
    /\ UNCHANGED notController

\* Podman::new fails and unwrap panics: the handler task ends without a response
LegacyConnectPanic ==
    /\ cmode = "legacy" /\ cpc = "connect"
    /\ cpc' = "panicked"
    /\ UNCHANGED <<cmode, pullLeft, chunksLeft, cstate, createOpts, rtcalls,
                   events, chunksRead, cresp>>
    /\ UNCHANGED notController

LegacyPullProgress ==
    /\ cmode = "legacy" /\ cpc = "pull" /\ pullLeft > 0
    /\ pullLeft' = pullLeft - 1
    /\ UNCHANGED <<cmode, cpc, chunksLeft, cstate, createOpts, rtcalls, events,
                   chunksRead, cresp>>
    /\ UNCHANGED notController

LegacyPullFail ==
    /\ cmode = "legacy" /\ cpc = "pull"
    /\ cpc' = "done" /\ cresp' = 500
    /\ UNCHANGED <<cmode, pullLeft, chunksLeft, cstate, createOpts, rtcalls,
                   events, chunksRead>>
    /\ UNCHANGED notController

LegacyPullEnd ==
    /\ cmode = "legacy" /\ cpc = "pull" /\ pullLeft = 0
    /\ cpc' = "create"
    /\ UNCHANGED <<cmode, pullLeft, chunksLeft, cstate, createOpts, rtcalls,
                   events, chunksRead, cresp>>
    /\ UNCHANGED notController

LegacyCreateOk ==
    /\ cmode = "legacy" /\ cpc = "create"
    /\ rtcalls' = Append(rtcalls, "create")
    /\ createOpts' = LegacyCreateOpts
    /\ cstate' = "created"
    /\ cpc' = "start"
    /\ UNCHANGED <<cmode, pullLeft, chunksLeft, events, chunksRead, cresp>>
    /\ UNCHANGED notController

LegacyCreateFail ==
    /\ cmode = "legacy" /\ cpc = "create"
    /\ rtcalls' = Append(rtcalls, "create")
    /\ createOpts' = LegacyCreateOpts
    /\ cpc' = "done" /\ cresp' = 500
    /\ UNCHANGED <<cmode, pullLeft, chunksLeft, cstate, events, chunksRead>>
    /\ UNCHANGED notController

\* start, then 200 "Container created and started successfully" (or 500)
LegacyStart ==
    /\ cmode = "legacy" /\ cpc = "start"
    /\ rtcalls' = Append(rtcalls, "start")
    /\ \E ok \in BOOLEAN :
          /\ cstate' = IF ok THEN "running" ELSE cstate
          /\ cresp' = IF ok THEN 200 ELSE 500
    /\ cpc' = "done"
    /\ UNCHANGED <<cmode, pullLeft, chunksLeft, createOpts, events, chunksRead>>
    /\ UNCHANGED notController

CNext ==
    \/ ReceiveCreate
    \/ UnaryConnect \/ UnaryConnectPanic
    \/ UnaryPullProgress \/ UnaryPullFail \/ UnaryPullEnd
    \/ UnaryCreateOk \/ UnaryCreateFail
    \/ UnaryStartOk \/ UnaryStartFail
    \/ UnaryWaitOk \/ UnaryWaitFail
    \/ UnaryLogsOk \/ UnaryLogsFail
    \/ UnaryRemove
    \/ StreamConnect \/ StreamConnectFail
    \/ StreamPullProgress \/ StreamPullFail \/ StreamPullEnd
    \/ StreamCreateOk \/ StreamCreateFail
    \/ StreamAttachOk \/ StreamAttachFail
    \/ StreamStartOk \/ StreamStartFail
    \/ StreamReadChunk \/ StreamReadFail \/ StreamReadEnd
    \/ StreamWait \/ StreamRemove \/ StreamDone
    \/ ClientDisconnect
    \/ LegacyConnect \/ LegacyConnectPanic
    \/ LegacyPullProgress \/ LegacyPullFail \/ LegacyPullEnd
    \/ LegacyCreateOk \/ LegacyCreateFail
    \/ LegacyStart

(***************************************************************************)
(* Security validator (repl-api/src/security.rs)                           *)
(*                                                                         *)
(* A submitted code text is represented by what the validator reads of it: *)
(* its length in bytes, the catalogue patterns that match it and the       *)
(* language symbols it contains.                                           *)
(***************************************************************************)
MAX_CODE_SIZE == 1048576
MAX_DEPENDENCIES == 20

Languages == {"Python", "Node", "Rust", "Go", "Ruby"}

\* DANGEROUS_PATTERNS, in the order of the list
DangerousPatterns ==
    << [id |-> "fork_bomb",      description |-> "Fork bomb pattern detected",                     severity |-> "Critical"],
       [id |-> "fork_loop",      description |-> "Potential fork bomb loop detected",              severity |-> "Critical"],
       [id |-> "net_scan",       description |-> "Network scanning tool detected",                 severity |-> "Critical"],
       [id |-> "mining",         description |-> "Cryptocurrency mining software detected",        severity |-> "Critical"],
       [id |-> "reverse_shell",  description |-> "Reverse shell pattern detected",                 severity |-> "Critical"],
       [id |-> "fs_destruction", description |-> "Potentially destructive file system operation",  severity |-> "High"],
       [id |-> "sql_injection",  description |-> "SQL injection pattern detected",                 severity |-> "Medium"],
       [id |-> "infinite_loop",  description |-> "Infinite loop pattern detected",                 severity |-> "Medium"] >>

\* DANGEROUS_IMPORTS, in the order of each language's list
DangerousImports(language) ==
    CASE language = "Python" -> <<"os.system", "subprocess.Popen", "eval(", "exec(",
                                  "__import__", "compile(", "globals(", "locals(">>
      [] language = "Node"   -> <<"child_process", "eval(", "Function(", "require('vm')">>
      [] language = "Rust"   -> <<"std::process::Command", "unsafe {">>
      [] language = "Go"     -> <<"exec.Command", "syscall.">>
      [] language = "Ruby"   -> <<"system(", "exec(", "eval(", "backtick", "Kernel.eval">>
      [] OTHER               -> <<>>

\* dependency names of the model and the ones is_suspicious_dependency flags
\* (the lower-cased name contains one of the suspicious keywords)
DepNames == {"requests", "package", "cryptominer"}
is_suspicious_dependency(dep) == dep \in {"cryptominer"}

Violation(d, sev, block) == [description |-> d, severity |-> sev, should_block |-> block]

\* a catalogue check that makes every match block, whatever its severity
RECURSIVE PatternsAllBlock(_, _)
PatternsAllBlock(code, i) ==
    IF i > Len(DangerousPatterns) THEN <<>>
    ELSE LET pd == DangerousPatterns[i]
         IN  (IF pd.id \in code.matches
              THEN <<Violation(pd.description, pd.severity, TRUE)>>
              ELSE <<>>) \o PatternsAllBlock(code, i + 1)

\* the violations of the pattern catalogue from entry i on
RECURSIVE PatternViolations(_, _)
PatternViolations(code, i) ==
    IF i > Len(DangerousPatterns) THEN <<>>
    ELSE LET pd == DangerousPatterns[i]
             should_block == pd.severity \in {"Critical", "High"}
         IN  (IF pd.id \in code.matches
              THEN <<Violation(pd.description, pd.severity, should_block)>>
              ELSE <<>>) \o PatternViolations(code, i + 1)

RECURSIVE ImportViolations(_, _, _)
ImportViolations(code, imports, i) ==
    IF i > Len(imports) THEN <<>>
    ELSE (IF imports[i] \in code.contains
          THEN <<Violation("Potentially dangerous import/pattern detected", "Medium", FALSE)>>
          ELSE <<>>) \o ImportViolations(code, imports, i + 1)

RECURSIVE DependencyViolations(_, _)
DependencyViolations(dependencies, i) ==
    IF i > Len(dependencies) THEN <<>>
    ELSE (IF is_suspicious_dependency(dependencies[i])
          THEN <<Violation("Suspicious dependency detected", "High", TRUE)>>
          ELSE <<>>) \o DependencyViolations(dependencies, i + 1)

\* a validator whose limits are reached one byte and one dependency early
ValidateLimitsInclusive(code, language, dependencies) ==
    LET violations ==
            (IF code.len >= MAX_CODE_SIZE
             THEN <<Violation("Code size exceeds maximum allowed size", "High", TRUE)>>
             ELSE <<>>)
         \o (IF Len(dependencies) >= MAX_DEPENDENCIES
             THEN <<Violation("Number of dependencies exceeds maximum allowed", "Medium", TRUE)>>
             ELSE <<>>)
         \o PatternViolations(code, 1)
         \o ImportViolations(code, DangerousImports(language), 1)
         \o DependencyViolations(dependencies, 1)
    IN  [is_safe |-> ~(\E i \in DOMAIN violations : violations[i].should_block),
         violations |-> violations]

\* a validator that lets everything pass that is not of Critical severity
ValidateCriticalOnly(code, language, dependencies) ==
    LET violations ==
            (IF code.len > MAX_CODE_SIZE
             THEN <<Violation("Code size exceeds maximum allowed size", "High", TRUE)>>
             ELSE <<>>)
         \o (IF Len(dependencies) > MAX_DEPENDENCIES
             THEN <<Violation("Number of dependencies exceeds maximum allowed", "Medium", TRUE)>>
             ELSE <<>>)
         \o PatternViolations(code, 1)
         \o ImportViolations(code, DangerousImports(language), 1)
         \o DependencyViolations(dependencies, 1)
    IN  [is_safe |-> ~(\E i \in DOMAIN violations : violations[i].severity = "Critical"),
         violations |-> violations]

validate_code(code, language, dependencies) ==
    LET violations ==
            (IF code.len > MAX_CODE_SIZE
             THEN <<Violation("Code size exceeds maximum allowed size", "High", TRUE)>>
             ELSE <<>>)
         \o (IF Len(dependencies) > MAX_DEPENDENCIES
             THEN <<Violation("Number of dependencies exceeds maximum allowed", "Medium", TRUE)>>
             ELSE <<>>)
         \o PatternViolations(code, 1)
         \o ImportViolations(code, DangerousImports(language), 1)
         \o DependencyViolations(dependencies, 1)
    IN  [is_safe |-> ~(\E i \in DOMAIN violations : violations[i].should_block),
         violations |-> violations]

(***************************************************************************)
(* Execution broker (repl-api/src/lib.rs, repl-api/src/main.rs)            *)
(***************************************************************************)
Code(len, matches, contains) == [len |-> len, matches |-> matches, contains |-> contains]

\* Code texts written out byte by byte.  ForkBombText is `:(){ :|:& };:`,
\* CompactForkBomb is `:(){:|:&};:`.
ForkBombText == <<":", "(", ")", "{", " ", ":", "|", ":", "&", " ", "}", ";", ":">>
CompactForkBomb == <<":", "(", ")", "{", ":", "|", ":", "&", "}", ";", ":">>

\* text has the literal lit at position i
HasAt(text, i, lit) ==
    /\ i + Len(lit) - 1 <= Len(text)
    /\ SubSeq(text, i, i + Len(lit) - 1) = lit

\* Regex::new(r":\(\)\{.*:\|:&\};:"): the literal `:(){`, then any bytes but
\* a line feed, then the literal `:|:&};:`
ForkBombRegexMatches(text) ==
    \E i \in 1..Len(text), j \in 1..Len(text) :
        /\ HasAt(text, i, <<":", "(", ")", "{">>)
        /\ j >= i + 4
        /\ HasAt(text, j, <<":", "|", ":", "&", "}", ";", ":">>)
        /\ \A k \in (i + 4)..(j - 1) : text[k] # "LF"

\* what the validator reads of a text that is made of the punctuation above
\* only: no letter occurs in it, so no other pattern of the catalogue and no
\* import symbol matches it
CodeOfText(text) ==
    Code(Len(text), IF ForkBombRegexMatches(text) THEN {"fork_bomb"} ELSE {}, {})

\* the fork-bomb payload `:(){ :|:& };:` in every language
ForkBombPayloads ==
    {[language |-> l, code |-> CodeOfText(ForkBombText), dependencies |-> <<>>] : l \in Languages}

\* the execute requests of the model
Payloads ==
    ForkBombPayloads \cup
    { [language |-> "Python", code |-> Code(14, {}, {}), dependencies |-> <<>>],
      [language |-> "Python", code |-> Code(41, {}, {}), dependencies |-> <<"requests">>],
      [language |-> "Python", code |-> CodeOfText(CompactForkBomb), dependencies |-> <<>>],
      [language |-> "Node",   code |-> Code(30, {"infinite_loop"}, {"eval("}), dependencies |-> <<>>],
      [language |-> "Ruby",   code |-> Code(20, {"fs_destruction", "sql_injection"}, {"backtick"}), dependencies |-> <<>>],
      [language |-> "Go",     code |-> Code(MAX_CODE_SIZE + 1, {}, {}), dependencies |-> <<>>],
      [language |-> "Go",     code |-> Code(MAX_CODE_SIZE, {}, {}),
                              dependencies |-> [i \in 1..MAX_DEPENDENCIES |-> "package"]],
      [language |-> "Python", code |-> Code(11, {}, {}), dependencies |-> <<"cryptominer">>],
      [language |-> "Rust",   code |-> Code(25, {}, {}), dependencies |-> [i \in 1..(MAX_DEPENDENCIES + 1) |-> "package"]] }

NoPayload == [language |-> "none", code |-> Code(0, {}, {}), dependencies |-> <<>>]

\* Option<String>
None == [some |-> FALSE, value |-> <<>>]
Some(v) == [some |-> TRUE, value |-> v]

\* instances of container-api the registry may list
InstanceA == [address |-> "10.0.0.1", port |-> 3000]
InstanceB == [address |-> "10.0.0.2", port |-> 3001]

\* what the GET /api/registry/services/container-api request comes back with:
\* a transport error, a non-2xx status, a body that is no list of ServiceInfo,
\* or a list
LookupResponses ==
    {[kind |-> k, services |-> <<>>] : k \in {"network_error", "non_2xx", "bad_body"}}
    \cup {[kind |-> "ok", services |-> s] :
              s \in {<<>>, <<InstanceA>>, <<InstanceA, InstanceB>>, <<InstanceB, InstanceA>>}}

NoLookup == [kind |-> "none", services |-> <<>>]

\* values of CONTAINERS_API_URL
EnvValues == {"unset", "http://containers-api:3000"}

\* get_service_endpoint, given the registry's answer
get_service_endpoint(response) ==
    IF response.kind = "ok" /\ response.services # <<>>
    THEN Some(<<"http://", response.services[1].address, ":", response.services[1].port>>)
    ELSE None

\* a session that never reads CONTAINERS_API_URL
NewWithDefaultOnly(endpoint, env) ==
    IF endpoint.some THEN endpoint.value ELSE <<"http://localhost:3000">>

\* ReplSession::new_with_endpoint: containers_api_url; execute_repl_stream
\* computes the same
new_with_endpoint(endpoint, env) ==
    IF endpoint.some THEN endpoint.value
    ELSE IF env # "unset" THEN <<env>>
    ELSE <<"http://localhost:3000">>
NoVerdict == [is_safe |-> TRUE, violations |-> <<>>]

\* the middleware layers main() puts on the repl-api router: none
ReplApiLayers == {}

\* The controller's response body is a sequence of bytes.  A byte of the model
\* is one of these tokens: the field names "data:" and "event:", the event
\* type "done", a space, a line feed, the output bytes "a" and "b", and "c"
\* for the text "Container execution completed".
LF == "LF"
SP == " "

\* payloads the controller's data events carry
UpstreamPayloads == { <<"a">>, <<"a", "b">>, <<"a", SP>> }

\* events of the controller's stream: data events and the done event
UpstreamEvents ==
    {[type |-> "data", payload |-> x] : x \in UpstreamPayloads}
        \cup {[type |-> "done", payload |-> <<"c">>]}

\* the bytes of one event on the wire: "data: <payload>\n\n", and
\* "event: done\ndata: <payload>\n\n"
WireOf(ev) ==
    (IF ev.type = "done" THEN <<"event:", SP, "done", LF>> ELSE <<>>)
        \o <<"data:", SP>> \o ev.payload \o <<LF, LF>>

RECURSIVE Wire(_)
Wire(evs) == IF evs = <<>> THEN <<>> ELSE WireOf(Head(evs)) \o Wire(Tail(evs))

\* the payloads of the data events of a stream, in order
RECURSIVE DataPayloads(_)
DataPayloads(evs) ==
    IF evs = <<>> THEN <<>>
    ELSE (IF Head(evs).type = "data" THEN <<Head(evs).payload>> ELSE <<>>)
             \o DataPayloads(Tail(evs))

\* str::lines: the text split at line feeds; a last line without a line feed
\* is a line too
RECURSIVE LinesFrom(_, _, _)
LinesFrom(text, i, cur) ==
    IF i > Len(text) THEN (IF cur = <<>> THEN <<>> ELSE <<cur>>)
    ELSE IF text[i] = LF THEN <<cur>> \o LinesFrom(text, i + 1, <<>>)
    ELSE LinesFrom(text, i + 1, Append(cur, text[i]))

Lines(text) == LinesFrom(text, 1, <<>>)

\* str::trim: leading and trailing white space dropped
RECURSIVE TrimStart(_)
TrimStart(s) == IF s # <<>> /\ Head(s) = SP THEN TrimStart(Tail(s)) ELSE s

RECURSIVE TrimEnd(_)
TrimEnd(s) == IF s # <<>> /\ s[Len(s)] = SP THEN TrimEnd(SubSeq(s, 1, Len(s) - 1)) ELSE s

Trim(s) == TrimEnd(TrimStart(s))

\* line.starts_with("data:") and line.strip_prefix("data:").unwrap_or("").trim()
IsDataLine(line) == line # <<>> /\ line[1] = "data:"
DataOf(line) == Trim(Tail(line))

\* line.starts_with("event:") and the trimmed rest of the line is "done"
IsEventLine(line) == line # <<>> /\ line[1] = "event:"
IsDoneLine(line) == IsEventLine(line) /\ Trim(Tail(line)) = <<"done">>

BData(text) == [type |-> "data", text |-> text]
BDone == [type |-> "done", text |-> <<>>]
BError(what) == [type |-> "data", text |-> <<"ERROR", what>>]

\* for line in text.lines(): the events one chunk makes the broker yield;
\* an "event: done" line yields done and leaves the for loop
RECURSIVE ForwardLines(_, _)
ForwardLines(lines, i) ==
    IF i > Len(lines) THEN <<>>
    ELSE IF IsDataLine(lines[i])
         THEN (IF DataOf(lines[i]) # <<>> THEN <<BData(DataOf(lines[i]))>> ELSE <<>>)
              \o ForwardLines(lines, i + 1)
         ELSE IF IsDoneLine(lines[i]) THEN <<BDone>>
         ELSE ForwardLines(lines, i + 1)

\* event streams of the controller, up to MaxUpstreamEvents events long
RECURSIVE EventSeqs(_)
EventSeqs(n) ==
    IF n = 0 THEN {<<>>}
    ELSE EventSeqs(n - 1) \cup
         {Append(s, e) : s \in {x \in EventSeqs(n - 1) : Len(x) = n - 1}, e \in UpstreamEvents}

BInit ==
    /\ bmode = "none"
    /\ bpc = "idle"
    /\ bpayload = NoPayload
    /\ bverdict = NoVerdict
    /\ blog = <<>>
    /\ bstatus = 0
    /\ bevents = <<>>
    /\ upEvents = <<>>
    /\ upstream = <<>>
    /\ blookup = NoLookup
    /\ benv = "unset"
    /\ burl = <<>>
    /\ bsuccess = "unset"

\* A request to POST /api/repl/execute or /api/repl/execute/stream goes through
\* the router's layers to the handler.  With the rate-limit layer on the router
\* the middleware decides first; the router main() builds has no layer.
RouterDispatch ==
    /\ bpc = "idle"
    /\ \E m \in {"unary", "stream"}, p \in Payloads, allowed \in BOOLEAN :
          /\ bmode' = m
          /\ bpayload' = p
          /\ IF "rate_limit" \in ReplApiLayers
             THEN /\ blog' = Append(blog, "rate_limit")
                  /\ bpc' = IF allowed THEN "handler" ELSE "done"
                  /\ bstatus' = IF allowed THEN 0 ELSE 429
             ELSE /\ blog' = blog
                  /\ bpc' = "handler"
                  /\ bstatus' = 0
    /\ UNCHANGED <<bverdict, bevents, upEvents, upstream, blookup, benv, burl, bsuccess>>
    /\ UNCHANGED notBroker

\* a handler that refuses nothing
NeverBlocked(verdict) == FALSE

\* the handler refuses a payload whose verdict is not safe
Blocked(verdict) == ~verdict.is_safe

\* execute_repl: validate_code, then 403 when the verdict is not safe
ExecuteReplValidate ==
    /\ bmode = "unary" /\ bpc = "handler"
    /\ LET v == validate_code(bpayload.code, bpayload.language, bpayload.dependencies)
       IN  /\ bverdict' = v
           /\ blog' = Append(blog, "validate")
           /\ bpc' = IF Blocked(v) THEN "done" ELSE "lookup"
           /\ bstatus' = IF Blocked(v) THEN 403 ELSE bstatus
           /\ bsuccess' = IF Blocked(v) THEN "false" ELSE bsuccess
    /\ UNCHANGED <<bmode, bpayload, bevents, upEvents, upstream, blookup, benv, burl>>
    /\ UNCHANGED notBroker

\* the lookup of both handlers: get_service_endpoint("container-api") gives
\* Some(url) or None, and the URL is that one or the fallback
Lookup ==
    /\ blog' = Append(blog, "lookup")
    /\ \E response \in LookupResponses, env \in EnvValues :
          /\ blookup' = response
          /\ benv' = env
          /\ burl' = new_with_endpoint(get_service_endpoint(response), env)
    /\ bpc' = "request"

\* execute_repl: the lookup, then the session
ExecuteReplLookup ==
    /\ bmode = "unary" /\ bpc = "lookup"
    /\ Lookup
    /\ UNCHANGED <<bmode, bpayload, bverdict, bstatus, bevents, upEvents, upstream, bsuccess>>
    /\ UNCHANGED notBroker

\* an execute_with_dependencies that sends the request again after a failure
RequestRetriedOnce ==
    /\ bmode = "unary" /\ bpc = "request"
    /\ \E outcome \in {"ok", "send_error", "non_2xx", "bad_body"} :
          /\ blog' = blog \o <<"create_request", "send_error", "create_request", outcome>>
          /\ bstatus' = IF outcome = "ok" THEN 200 ELSE 500
          /\ bsuccess' = IF outcome = "ok" THEN "true" ELSE "false"
    /\ bpc' = "done"
    /\ blookup' = NoLookup
    /\ UNCHANGED <<bmode, bpayload, bverdict, bevents, upEvents, upstream, benv, burl>>
    /\ UNCHANGED notBroker

\* execute_with_dependencies: one POST to /api/containers/create; a send error,
\* a non-2xx status or an unparsable body make the handler answer 500
ExecuteReplRequest ==
    /\ bmode = "unary" /\ bpc = "request"
    /\ \E outcome \in {"ok", "send_error", "non_2xx", "bad_body"} :
          /\ blog' = blog \o <<"create_request", outcome>>
          /\ bstatus' = IF outcome = "ok" THEN 200 ELSE 500
          /\ bsuccess' = IF outcome = "ok" THEN "true" ELSE "false"
    /\ bpc' = "done"
    /\ blookup' = NoLookup
    /\ UNCHANGED <<bmode, bpayload, bverdict, bevents, upEvents, upstream, benv, burl>>
    /\ UNCHANGED notBroker

\* execute_repl_stream: validate_code, then an ERROR event and return when the
\* verdict is not safe.  The response is an SSE stream: its status is 200.
ExecuteStreamValidate ==
    /\ bmode = "stream" /\ bpc = "handler"
    /\ LET v == validate_code(bpayload.code, bpayload.language, bpayload.dependencies)
       IN  /\ bverdict' = v
           /\ blog' = Append(blog, "validate")
           /\ bpc' = IF Blocked(v) THEN "done" ELSE "lookup"
           /\ bevents' = IF Blocked(v)
                         THEN Append(bevents, BError("Code execution blocked"))
                         ELSE bevents
    /\ bstatus' = 200
    /\ UNCHANGED <<bmode, bpayload, upEvents, upstream, blookup, benv, burl, bsuccess>>
    /\ UNCHANGED notBroker

ExecuteStreamLookup ==
    /\ bmode = "stream" /\ bpc = "lookup"
    /\ Lookup
    /\ UNCHANGED <<bmode, bpayload, bverdict, bstatus, bevents, upEvents, upstream, bsuccess>>
    /\ UNCHANGED notBroker

\* one POST to /api/containers/create/stream
ExecuteStreamRequestOk ==
    /\ bmode = "stream" /\ bpc = "request"
    /\ blog' = blog \o <<"create_request", "ok">>
    /\ \E evs \in EventSeqs(MaxUpstreamEvents) :
          /\ upEvents' = evs
          /\ upstream' = Wire(evs)
    /\ bpc' = "forward"
    /\ blookup' = NoLookup
    /\ UNCHANGED <<bmode, bpayload, bverdict, bstatus, bevents, benv, burl, bsuccess>>
    /\ UNCHANGED notBroker

\* the send failed, or the status is not 2xx: ERROR event, return
ExecuteStreamRequestFail ==
    /\ bmode = "stream" /\ bpc = "request"
    /\ \E outcome \in {"send_error", "non_2xx"} :
          /\ blog' = blog \o <<"create_request", outcome>>
          /\ bevents' = Append(bevents, BError(IF outcome = "send_error"
                                               THEN "Failed to connect to container API"
                                               ELSE "Container execution failed"))
    /\ bpc' = "done"
    /\ blookup' = NoLookup
    /\ UNCHANGED <<bmode, bpayload, bverdict, bstatus, upEvents, upstream, benv, burl, bsuccess>>
    /\ UNCHANGED notBroker

\* event_source.next() gives Ok(chunk), the next n bytes of the body, cut
\* wherever the transport cuts them: the lines of the chunk are forwarded
ExecuteStreamForwardChunk ==
    /\ bmode = "stream" /\ bpc = "forward" /\ upstream # <<>>
    /\ \E n \in 1..Len(upstream) :
          /\ bevents' = bevents \o ForwardLines(Lines(SubSeq(upstream, 1, n)), 1)
          /\ upstream' = SubSeq(upstream, n + 1, Len(upstream))
    /\ UNCHANGED <<bmode, bpc, bpayload, bverdict, blog, bstatus, upEvents,
                   blookup, benv, burl, bsuccess>>
    /\ UNCHANGED notBroker

\* event_source.next() gives Err(e): ERROR event, break out of the while loop
ExecuteStreamForwardFail ==
    /\ bmode = "stream" /\ bpc = "forward"
    /\ bevents' = Append(bevents, BError("Stream error"))
    /\ bpc' = "done"
    /\ UNCHANGED <<bmode, bpayload, bverdict, blog, bstatus, upEvents, upstream,
                   blookup, benv, burl, bsuccess>>
    /\ UNCHANGED notBroker

\* event_source.next() gives None: the while loop and the stream end
ExecuteStreamForwardEnd ==
    /\ bmode = "stream" /\ bpc = "forward" /\ upstream = <<>>
    /\ bpc' = "done"
    /\ UNCHANGED <<bmode, bpayload, bverdict, blog, bstatus, bevents, upEvents, upstream,
                   blookup, benv, burl, bsuccess>>
    /\ UNCHANGED notBroker

BNext ==
    \/ RouterDispatch
    \/ ExecuteReplValidate \/ ExecuteReplLookup \/ ExecuteReplRequest
    \/ ExecuteStreamValidate \/ ExecuteStreamLookup \/ ExecuteStreamRequestOk \/ ExecuteStreamRequestFail
    \/ ExecuteStreamForwardChunk \/ ExecuteStreamForwardFail \/ ExecuteStreamForwardEnd

(***************************************************************************)
(* Service registry (service-registry/src/registry.rs, api.rs) over its    *)
(* lease store, and the bootstrap client (bootstrap.rs).  Time is kept as  *)
(* seconds left (of a lease, of a sleep) and seconds gone (since a         *)
(* register), so that the clock itself needs no bound.                     *)
(***************************************************************************)
\* ServiceRegistry::new(etcd_endpoints, Some(10)); lease_ttl.unwrap_or(10)
LeaseTTL == 10

\* a keep-alive loop that sleeps one whole TTL between two requests
SleepWholeTTL == LeaseTTL

\* the keep-alive loop's tokio::time::sleep(Duration::from_secs(5))
KeepAliveInterval == 5

\* bootstrap_service: let max_attempts = 30
max_attempts == 30

\* bootstrap_service: tokio::time::sleep(Duration::from_secs(2)) after a
\* registration request that failed in transport
RetryInterval == 2

\* ServiceInfo records; the second and third have the same name and id
BootService == [name |-> "repl-api", id |-> "host-1", port |-> 3000]
Services ==
    { BootService,
      [name |-> "svc-a", id |-> "a-1", port |-> 8080],
      [name |-> "svc-a", id |-> "a-1", port |-> 8081] }

\* ServiceInfo::service_key: "/services/<name>/<id>"
service_key(service) == <<"services", service.name, service.id>>

Keys == {service_key(s) : s \in Services}
LeaseIds == 1..MaxLeases

NoInfo == [name |-> "", id |-> "", port |-> 0]
\* a lease id the store has not granted yet
NoLease == [issued |-> FALSE, ttl |-> 0, refreshed |-> FALSE]
\* a lease the store has dropped
GoneLease == [issued |-> TRUE, ttl |-> 0, refreshed |-> FALSE]
NoEntry == [lease |-> 0, info |-> NoInfo]
NoReg == [lease |-> 0, age |-> 0, info |-> NoInfo]

NoReply == [status |-> 0, extended |-> FALSE]

\* what the store does with a keep-alive: it answers on the stream, closes
\* the stream without a message, or the call fails
StoreOutcomes == {"response", "no_response", "error"}

RInit ==
    /\ leases = [l \in LeaseIds |-> NoLease]
    /\ kv = [k \in Keys |-> NoEntry]
    /\ lastReg = [k \in Keys |-> NoReg]
    /\ deregd = [k \in Keys |-> FALSE]
    /\ kpc = "init"
    /\ attempts = 0
    /\ kLease = 0
    /\ kSleep = 0
    /\ kLate = 0
    /\ kMissed = [transport |-> 0, server |-> 0]
    /\ kaReply = NoReply

\* the lease id the store grants next
CanGrant == \E l \in LeaseIds : ~leases[l].issued
FreshLease == CHOOSE l \in LeaseIds : ~leases[l].issued /\
                 \A m \in LeaseIds : ~leases[m].issued => l <= m

Live(l) == leases[l].ttl > 0

\* The store one second later: a lease whose TTL has run out is gone, and every
\* key bound to it is deleted with it.
ExpiresNow(l) == leases[l].ttl = 1
LeasesAfterSecond ==
    [l \in LeaseIds |-> IF ExpiresNow(l) THEN GoneLease
                        ELSE IF Live(l) THEN [leases[l] EXCEPT !.ttl = @ - 1]
                        ELSE leases[l]]
KvAfterSecond ==
    [k \in Keys |-> IF kv[k].lease # 0 /\ ExpiresNow(kv[k].lease) THEN NoEntry ELSE kv[k]]

\* a register that asks the store for a lease of twice the configured TTL
RegisterDoubleTTL(service, l) ==
    /\ leases' = [leases EXCEPT ![l] = [issued |-> TRUE, ttl |-> 2 * LeaseTTL,
                                        refreshed |-> FALSE]]
    /\ kv' = [kv EXCEPT ![service_key(service)] = [lease |-> l, info |-> service]]
    /\ lastReg' = [lastReg EXCEPT ![service_key(service)] =
                                      [lease |-> l, age |-> 0, info |-> service]]
    /\ deregd' = [deregd EXCEPT ![service_key(service)] = FALSE]

\* ServiceRegistry::register: lease_grant(lease_ttl), then put(key, value) with
\* the lease; returns the lease id
RegistryRegister(service, l) ==
    /\ leases' = [leases EXCEPT ![l] = [issued |-> TRUE, ttl |-> LeaseTTL,
                                        refreshed |-> FALSE]]
    /\ kv' = [kv EXCEPT ![service_key(service)] = [lease |-> l, info |-> service]]
    /\ lastReg' = [lastReg EXCEPT ![service_key(service)] =
                                      [lease |-> l, age |-> 0, info |-> service]]
    /\ deregd' = [deregd EXCEPT ![service_key(service)] = FALSE]

\* ServiceRegistry::keep_alive: one keep-alive message for the lease; the store
\* extends a live lease to one TTL and answers TTL 0 for any other; Ok(()) in both
RegistryKeepAlive(l) ==
    /\ leases' = IF Live(l)
                 THEN [leases EXCEPT ![l] = [issued |-> TRUE, ttl |-> LeaseTTL,
                                             refreshed |-> TRUE]]
                 ELSE leases
    /\ UNCHANGED <<kv, lastReg, deregd>>

\* ServiceRegistry::deregister: delete(key); the lease is not revoked
RegistryDeregister(service) ==
    /\ kv' = [kv EXCEPT ![service_key(service)] = NoEntry]
    /\ deregd' = [deregd EXCEPT ![service_key(service)] = TRUE]
    /\ UNCHANGED <<leases, lastReg>>

\* ServiceRegistry::get_services: the values under the prefix "/services/<name>/"
get_services(service_name) ==
    {kv[k].info : k \in {x \in Keys : kv[x].lease # 0 /\ x[1] = "services" /\ x[2] = service_name}}

\* ServiceRegistry::get_all_services: the values under the prefix "/services/"
get_all_services ==
    {kv[k].info : k \in {x \in Keys : kv[x].lease # 0 /\ x[1] = "services"}}

\* the keep-alive loop's request is due and may be delayed no longer
KeepAliveOverdue == kpc = "sleep" /\ kSleep = 0 /\ kLate >= MaxLatency

\* one second passes
Tick ==
    /\ ~KeepAliveOverdue
    /\ leases' = LeasesAfterSecond
    /\ kv' = KvAfterSecond
    /\ lastReg' = [k \in Keys |-> IF lastReg[k].lease # 0 /\ lastReg[k].age < LeaseTTL
                                  THEN [lastReg[k] EXCEPT !.age = @ + 1]
                                  ELSE lastReg[k]]
    /\ kSleep' = IF kSleep > 0 THEN kSleep - 1 ELSE kSleep
    /\ kLate' = IF kpc = "sleep" /\ kSleep = 0 THEN kLate + 1 ELSE kLate
    /\ UNCHANGED <<deregd, kpc, attempts, kLease, kMissed>>
    /\ UNCHANGED <<kaReply, notRegistry>>

\* POST /api/registry/register
ApiRegister ==
    /\ CanGrant
    /\ \E s \in Services : RegistryRegister(s, FreshLease)
    /\ UNCHANGED <<kpc, attempts, kLease, kSleep, kLate, kMissed>>
    /\ UNCHANGED <<kaReply, notRegistry>>

\* POST /api/registry/keepalive
\* the status the keep_alive handler answers: ServiceRegistry::keep_alive is
\* Ok(()) unless one of its store calls fails; a stream message is only
\* logged, and a stream that ends without one is Ok(()) as well
KeepAliveStatus(outcome, live) ==
    IF outcome = "error" THEN 500 ELSE 200

ApiKeepAlive ==
    /\ \E l \in LeaseIds, outcome \in StoreOutcomes :
          /\ IF outcome = "response"
             THEN RegistryKeepAlive(l)
             ELSE UNCHANGED <<leases, kv, lastReg, deregd>>
          /\ kaReply' = [status |-> KeepAliveStatus(outcome, Live(l)),
                          extended |-> outcome = "response" /\ Live(l)]
    /\ UNCHANGED <<kpc, attempts, kLease, kSleep, kLate, kMissed>>
    /\ UNCHANGED notRegistry

\* POST /api/registry/deregister
ApiDeregister ==
    /\ \E s \in Services : RegistryDeregister(s)
    /\ UNCHANGED <<kpc, attempts, kLease, kSleep, kLate, kMissed>>
    /\ UNCHANGED <<kaReply, notRegistry>>

RNext ==
    \/ Tick
    \/ ApiRegister \/ ApiKeepAlive \/ ApiDeregister

\* a failed registration request that aborts the process one attempt late
NetworkErrorPanicsLate ==
    /\ kpc = "init"
    /\ attempts <= max_attempts
    /\ attempts' = attempts + 1
    /\ IF attempts + 1 > max_attempts
       THEN kpc' = "panicked" /\ kSleep' = kSleep
       ELSE kpc' = "retry_sleep" /\ kSleep' = RetryInterval
    /\ UNCHANGED <<leases, kv, lastReg, deregd, kLease, kLate, kMissed>>
    /\ UNCHANGED <<kaReply, notRegistry>>

\* bootstrap_service: a registration request that fails in transport; the
\* process aborts after the last attempt, and sleeps before any other
BootRegisterNetworkError ==
    /\ kpc = "init"
    /\ attempts' = attempts + 1
    /\ IF attempts + 1 >= max_attempts
       THEN kpc' = "panicked" /\ kSleep' = kSleep
       ELSE kpc' = "retry_sleep" /\ kSleep' = RetryInterval
    /\ UNCHANGED <<leases, kv, lastReg, deregd, kLease, kLate, kMissed>>
    /\ UNCHANGED <<kaReply, notRegistry>>

\* bootstrap_service: the sleep after a failed request is over
BootRetry ==
    /\ kpc = "retry_sleep" /\ kSleep = 0
    /\ kpc' = "init"
    /\ UNCHANGED <<leases, kv, lastReg, deregd, attempts, kLease, kSleep, kLate, kMissed>>
    /\ UNCHANGED <<kaReply, notRegistry>>

\* bootstrap_service: a registration request whose response does not parse as
\* a RegisterResponse (the registry's 500 body); the process aborts after the
\* last attempt, and the loop goes round at once after any other
BootRegisterMalformed ==
    /\ kpc = "init"
    /\ attempts' = attempts + 1
    /\ kpc' = IF attempts + 1 >= max_attempts THEN "panicked" ELSE "init"
    /\ UNCHANGED <<leases, kv, lastReg, deregd, kLease, kSleep, kLate, kMissed>>
    /\ UNCHANGED <<kaReply, notRegistry>>

\* bootstrap_service: the registration request that gets a well-formed
\* response; the keep-alive task is spawned and starts its first sleep
BootRegister ==
    /\ kpc = "init"
    /\ CanGrant
    /\ attempts' = attempts + 1
    /\ RegistryRegister(BootService, FreshLease)
    /\ kLease' = FreshLease
    /\ kSleep' = KeepAliveInterval
    /\ kLate' = 0
    /\ kpc' = "sleep"
    /\ UNCHANGED kMissed
    /\ UNCHANGED <<kaReply, notRegistry>>

\* the loop's next iteration starts its sleep
SleepAgain == kSleep' = KeepAliveInterval /\ kLate' = 0

\* the keep-alive request reaches the registry, which refreshes the lease and
\* answers 200: result is Ok, the loop goes on
BootKeepAliveOk ==
    /\ kpc = "sleep" /\ kSleep = 0
    /\ RegistryKeepAlive(kLease)
    /\ SleepAgain
    /\ UNCHANGED <<kpc, attempts, kLease, kMissed>>
    /\ UNCHANGED <<kaReply, notRegistry>>

\* the registry answers 500 (its store call failed): result is still Ok(response),
\* the loop goes on; the lease was not refreshed
BootKeepAliveServerError ==
    /\ kpc = "sleep" /\ kSleep = 0
    /\ kMissed.server < MaxMisses
    /\ kMissed' = [kMissed EXCEPT !.server = @ + 1]
    /\ SleepAgain
    /\ UNCHANGED <<leases, kv, lastReg, deregd, kpc, attempts, kLease>>
    /\ UNCHANGED <<kaReply, notRegistry>>

\* the request fails in transport: result is Err(e), the loop breaks
BootKeepAliveTransportError ==
    /\ kpc = "sleep" /\ kSleep = 0
    /\ kMissed' = [kMissed EXCEPT !.transport = @ + 1]
    /\ kpc' = "stopped"
    /\ UNCHANGED <<leases, kv, lastReg, deregd, attempts, kLease, kSleep, kLate>>
    /\ UNCHANGED <<kaReply, notRegistry>>

BootNext ==
    \/ Tick
    \/ BootRegisterNetworkError \/ BootRetry \/ BootRegisterMalformed \/ BootRegister
    \/ BootKeepAliveOk \/ BootKeepAliveServerError \/ BootKeepAliveTransportError

(***************************************************************************)
(* The lock of the registry service (service-registry/src/api.rs, main.rs) *)
(*                                                                         *)
(* Every handler and the service's own keep-alive loop is a task that      *)
(* takes the tokio Mutex around the ServiceRegistry, makes its store calls *)
(* and drops the guard when it returns or ends its iteration.              *)
(***************************************************************************)
Handlers == {"register", "deregister", "list_services", "get_services_by_name",
             "keep_alive"}

KeepAliveLoop == "loop"

Tasks == Handlers \cup {KeepAliveLoop}

\* the store calls a task awaits under the lock: lease_grant and put for a
\* register, lease_keep_alive, keeper.keep_alive and stream.message for a
\* keep-alive, one call for the others
StoreCalls(t) ==
    CASE t = "register" -> 2
      [] t \in {"keep_alive", KeepAliveLoop} -> 3
      [] OTHER -> 1

Idle == [pc |-> "idle", left |-> 0, failed |-> FALSE]

\* the loop is spawned only when COREOS_URL is set and CoreOS got registered
MInit ==
    /\ mutex = "free"
    /\ waitq = <<>>
    /\ \E loop \in {"sleep", "absent"} :
          task = [t \in Tasks |->
                     IF t = KeepAliveLoop THEN [Idle EXCEPT !.pc = loop] ELSE Idle]

\* a request reaches handler t, or the loop's sleep is over:
\* registry.lock().await
Lock(t) ==
    /\ task[t].pc = IF t = KeepAliveLoop THEN "sleep" ELSE "idle"
    /\ task' = [task EXCEPT ![t] = [pc |-> "waiting", left |-> StoreCalls(t),
                                     failed |-> FALSE]]
    /\ waitq' = Append(waitq, t)
    /\ UNCHANGED mutex
    /\ UNCHANGED notLock

\* the Mutex hands the guard to the task that waited longest
Acquire(t) ==
    /\ task[t].pc = "waiting"
    /\ mutex = "free"
    /\ waitq # <<>> /\ Head(waitq) = t
    /\ mutex' = t
    /\ waitq' = Tail(waitq)
    /\ task' = [task EXCEPT ![t].pc = "locked"]
    /\ UNCHANGED notLock

\* a task that drops the guard before it makes its store call
StoreCallUnlocked(t) ==
    /\ task[t].pc = "locked"
    /\ task[t].left > 0
    /\ mutex' = "free"
    /\ task' = [task EXCEPT ![t].pc = "rpc"]
    /\ UNCHANGED waitq
    /\ UNCHANGED notLock

\* the task sends its next store call and awaits the answer, guard in hand
StoreCall(t) ==
    /\ task[t].pc = "locked"
    /\ task[t].left > 0
    /\ task' = [task EXCEPT ![t].pc = "rpc"]
    /\ UNCHANGED <<mutex, waitq>>
    /\ UNCHANGED notLock

\* the store answers: Ok, or Err which ? returns at once
StoreReturn(t) ==
    /\ task[t].pc = "rpc"
    /\ \E ok \in BOOLEAN :
          task' = [task EXCEPT ![t] =
                       IF ok THEN [pc |-> "locked", left |-> task[t].left - 1,
                                   failed |-> FALSE]
                       ELSE [pc |-> "locked", left |-> 0, failed |-> TRUE]]
    /\ UNCHANGED <<mutex, waitq>>
    /\ UNCHANGED notLock

\* the handler returns its response, or the loop ends its iteration (break on
\* Err): the guard is dropped
Unlock(t) ==
    /\ task[t].pc = "locked"
    /\ task[t].left = 0
    /\ mutex' = "free"
    /\ task' = [task EXCEPT ![t] =
                    IF t # KeepAliveLoop THEN Idle
                    ELSE IF task[t].failed THEN [Idle EXCEPT !.pc = "stopped"]
                    ELSE [Idle EXCEPT !.pc = "sleep"]]
    /\ UNCHANGED waitq
    /\ UNCHANGED notLock

MNext ==
    \E t \in Tasks :
        \/ Lock(t)
        \/ Acquire(t)
        \/ StoreCall(t)
        \/ StoreReturn(t)
        \/ Unlock(t)

(***************************************************************************)
(* Rate limiter (crates/repl-api/src/rate_limit.rs)                        *)
(*                                                                         *)
(* Time is counted in ticks, Resolution to the second, and tokens in parts *)
(* of a token, TokenScale to the token, so that the f64 arithmetic of the  *)
(* source is exact integer arithmetic here.  A bucket keeps the ticks      *)
(* since its last_refill instead of the instant itself.                    *)
(***************************************************************************)
TokenScale == Resolution

\* the requests_per_minute the limiter is built with: 60 and 600 as in the
\* source's tests
RpmChoices == {60, 600}

IPs == {"1.1.1.1", "1.1.1.2"}

NoLimiter == [capacity |-> 0, requests_per_minute |-> 0]
NoBucket == [tokens |-> 0 - 1, idle |-> 0]

\* Duration::from_secs(600), in seconds
CleanupAge == 600

\* an age of more than CleanupAge seconds, in ticks
StaleAge == CleanupAge * Resolution + 1

Min(a, b) == IF a <= b THEN a ELSE b

\* refill_rate = requests_per_minute / 60 tokens a second, which is this
\* many parts of a token a tick
RefillPerTick(lim) == lim.requests_per_minute \div 60

\* capacity in parts of a token
CapacityParts(lim) == lim.capacity * TokenScale

\* ticks after which an untouched bucket is certainly full
IdleCap(lim) == CapacityParts(lim)

\* ticks after which a token has been refilled for every request
SinceCap == MaxRequests * TokenScale

LInit ==
    /\ limiter = NoLimiter
    /\ buckets = [ip \in IPs |-> NoBucket]
    /\ decisions = [ip \in IPs |-> <<>>]
    /\ since = [ip \in IPs |-> 0]
    /\ swept = FALSE
    /\ reference = [ip \in IPs |-> NoBucket]

\* RateLimiter::new(requests_per_minute, burst_size)
RateLimiterNew ==
    /\ limiter = NoLimiter
    /\ \E rpm \in RpmChoices, burst \in 0..MaxBurst :
          limiter' = [capacity |-> burst, requests_per_minute |-> rpm]
    /\ UNCHANGED <<buckets, decisions, since, swept, reference>>
    /\ UNCHANGED notLimiter

\* TokenBucket::new(capacity, refill_rate)
TokenBucketNew(lim) == [tokens |-> CapacityParts(lim), idle |-> 0]

\* a refill that adds the new tokens without the min with capacity
RefillUnclamped(lim, bucket) ==
    [tokens |-> bucket.tokens + bucket.idle * RefillPerTick(lim), idle |-> 0]

\* TokenBucket::refill
refill(lim, bucket) ==
    [tokens |-> Min(bucket.tokens + bucket.idle * RefillPerTick(lim), CapacityParts(lim)),
     idle |-> 0]

\* a try_consume that never hands out the last token
TryConsumeStrict(lim, bucket, tokens) ==
    LET b == refill(lim, bucket)
    IN  IF b.tokens > tokens * TokenScale
        THEN [ok |-> TRUE, bucket |-> [b EXCEPT !.tokens = @ - tokens * TokenScale]]
        ELSE [ok |-> FALSE, bucket |-> b]

\* a try_consume that subtracts whether or not the tokens are there
TryConsumeUnchecked(lim, bucket, tokens) ==
    LET b == refill(lim, bucket)
    IN  [ok |-> b.tokens >= tokens * TokenScale,
         bucket |-> [b EXCEPT !.tokens = @ - tokens * TokenScale]]

\* TokenBucket::try_consume(tokens)
try_consume(lim, bucket, tokens) ==
    LET b == refill(lim, bucket)
    IN  IF b.tokens >= tokens * TokenScale
        THEN [ok |-> TRUE, bucket |-> [b EXCEPT !.tokens = @ - tokens * TokenScale]]
        ELSE [ok |-> FALSE, bucket |-> b]

\* TokenBucket::time_until_available(tokens), a Duration in milliseconds:
\* needed / refill_rate seconds.  With a refill_rate of 0 the quotient is
\* infinite and Duration::from_secs_f64 panics: DurationPanic.
DurationPanic == 0 - 1

time_until_available(lim, bucket, tokens) ==
    LET b == refill(lim, bucket)
    IN  IF b.tokens >= tokens * TokenScale
        THEN 0
        ELSE IF lim.requests_per_minute = 0
        THEN DurationPanic
        ELSE ((tokens * TokenScale - b.tokens) * 60000)
                 \div (TokenScale * lim.requests_per_minute)

\* Duration::as_secs: the whole seconds of a duration
as_secs(millis) == millis \div 1000

\* a limiter that keeps one bucket for all IPs
SharedBucket(lim, map, ip) ==
    IF \A other \in IPs : map[other] = NoBucket
    THEN TokenBucketNew(lim)
    ELSE map[CHOOSE other \in IPs : map[other] # NoBucket]

\* the bucket check_rate_limit works on: buckets.entry(ip).or_insert_with(..)
Entry(lim, map, ip) ==
    IF map[ip] = NoBucket THEN TokenBucketNew(lim) ELSE map[ip]

\* a check_rate_limit whose update of the bucket is lost
CheckUpdateLost(lim, map, ip) ==
    LET e == Entry(lim, map, ip)
        r == try_consume(lim, e, 1)
    IN  [ok |-> r.ok,
         tokens |-> refill(lim, e).tokens,
         retry_after |-> IF r.ok THEN 0 ELSE time_until_available(lim, r.bucket, 1),
         bucket |-> refill(lim, e)]

\* RateLimiter::check_rate_limit(ip): Ok(()) or Err(retry_after); tokens is
\* the token count the decision was taken on
check_rate_limit(lim, map, ip) ==
    LET r == try_consume(lim, Entry(lim, map, ip), 1)
    IN  [ok |-> r.ok,
         tokens |-> refill(lim, Entry(lim, map, ip)).tokens,
         retry_after |-> IF r.ok THEN 0 ELSE time_until_available(lim, r.bucket, 1),
         bucket |-> r.bucket]

\* requests the limiter has answered
Received == Len(decisions["1.1.1.1"]) + Len(decisions["1.1.1.2"])

\* rate_limit_middleware for a request of ip: next.run(request) when the
\* limiter allows it, or 429 with Retry-After.  check_rate_limit takes
\* buckets.write() at its first line and holds the guard until it returns,
\* with no await in between, so its work on the map is one step, as is a run
\* of the cleanup task, which holds the same lock.
RateLimitMiddleware(ip) ==
    /\ limiter # NoLimiter
    /\ Received < MaxRequests
    /\ LET r == check_rate_limit(limiter, buckets, ip)
       IN  /\ buckets' = [buckets EXCEPT ![ip] = r.bucket]
           /\ decisions' = [decisions EXCEPT ![ip] = Append(@,
                  IF r.ok
                  THEN [status |-> 200, tokens |-> r.tokens, retry_after |-> 0]
                  ELSE [status |-> 429, tokens |-> r.tokens,
                        retry_after |-> as_secs(r.retry_after)])]
    /\ reference' = [reference EXCEPT
                         ![ip] = check_rate_limit(limiter, reference, ip).bucket]
    /\ swept' = FALSE
    /\ UNCHANGED <<limiter, since>>
    /\ UNCHANGED notLimiter

\* the bucket after one more tick without a request
Aged(lim, bucket) ==
    IF bucket = NoBucket \/ bucket.idle >= IdleCap(lim)
    THEN bucket
    ELSE [bucket EXCEPT !.idle = @ + 1]

\* one tick passes
Elapse ==
    /\ limiter # NoLimiter
    /\ \E ip \in IPs : reference[ip] # NoBucket
    /\ buckets' = [ip \in IPs |-> Aged(limiter, buckets[ip])]
    /\ reference' = [ip \in IPs |-> Aged(limiter, reference[ip])]
    /\ since' = [ip \in IPs |->
          IF reference[ip] = NoBucket THEN 0 ELSE Min(since[ip] + 1, SinceCap)]
    /\ swept' = FALSE
    /\ UNCHANGED <<limiter, decisions>>
    /\ UNCHANGED notLimiter

\* more than CleanupAge seconds pass without a request
ElapseLong ==
    /\ limiter # NoLimiter
    /\ \E ip \in IPs : reference[ip] # NoBucket
    /\ buckets' = [ip \in IPs |->
          IF buckets[ip] = NoBucket THEN NoBucket
          ELSE [buckets[ip] EXCEPT !.idle = StaleAge]]
    /\ reference' = [ip \in IPs |->
          IF reference[ip] = NoBucket THEN NoBucket
          ELSE [reference[ip] EXCEPT !.idle = StaleAge]]
    /\ since' = [ip \in IPs |-> IF reference[ip] = NoBucket THEN 0 ELSE SinceCap]
    /\ swept' = FALSE
    /\ UNCHANGED <<limiter, decisions>>
    /\ UNCHANGED notLimiter

\* a cleanup task that retains no bucket
CleanupEvictsAll ==
    /\ limiter # NoLimiter
    /\ buckets' = [ip \in IPs |-> NoBucket]
    /\ swept' = TRUE
    /\ UNCHANGED <<limiter, decisions, since, reference>>
    /\ UNCHANGED notLimiter

\* one run of the cleanup task: buckets.retain(..)
CleanupTask ==
    /\ limiter # NoLimiter
    /\ buckets' = [ip \in IPs |->
          IF /\ buckets[ip] # NoBucket
             /\ buckets[ip].tokens >= CapacityParts(limiter)
             /\ buckets[ip].idle > CleanupAge * Resolution
          THEN NoBucket
          ELSE buckets[ip]]
    /\ swept' = TRUE
    /\ UNCHANGED <<limiter, decisions, since, reference>>
    /\ UNCHANGED notLimiter

LNext ==
    \/ RateLimiterNew
    \/ \E ip \in IPs : RateLimitMiddleware(ip)
    \/ Elapse
    \/ ElapseLong
    \/ CleanupTask

(***************************************************************************)
(* One TokenBucket called directly, as the tests of rate_limit.rs call it  *)
(***************************************************************************)
\* refill rates of 0, 1 and 10 tokens a second, as requests a minute
BucketRpmChoices == {0} \cup RpmChoices

\* the token counts a call asks for
Asked == 0..(MaxBurst + 1)

NoBucketCall == [fn |-> "none", x |-> 0, tokens0 |-> 0, elapsed |-> 0,
                 ok |-> FALSE, wait |-> 0]

TInit ==
    /\ tbparams = NoLimiter
    /\ tb = NoBucket
    /\ tbcall = NoBucketCall

\* TokenBucket::new(capacity, refill_rate) with capacity > 0, refill_rate >= 0
BucketNew ==
    /\ tbparams = NoLimiter
    /\ \E rpm \in BucketRpmChoices, capacity \in 1..MaxBurst :
          /\ tbparams' = [capacity |-> capacity, requests_per_minute |-> rpm]
          /\ tb' = TokenBucketNew(tbparams')
    /\ UNCHANGED tbcall
    /\ UNCHANGED notBucket

\* one tick passes
BucketElapse ==
    /\ tbparams # NoLimiter
    /\ tb.idle < IdleCap(tbparams)
    /\ tb' = [tb EXCEPT !.idle = @ + 1]
    /\ UNCHANGED <<tbparams, tbcall>>
    /\ UNCHANGED notBucket

\* bucket.refill()
BucketRefill ==
    /\ tbparams # NoLimiter
    /\ tb' = refill(tbparams, tb)
    /\ tbcall' = [fn |-> "refill", x |-> 0, tokens0 |-> tb.tokens,
                   elapsed |-> tb.idle, ok |-> TRUE, wait |-> 0]
    /\ UNCHANGED tbparams
    /\ UNCHANGED notBucket

\* bucket.try_consume(x)
BucketTryConsume ==
    /\ tbparams # NoLimiter
    /\ \E x \in Asked :
          LET r == try_consume(tbparams, tb, x)
          IN  /\ tb' = r.bucket
              /\ tbcall' = [fn |-> "try_consume", x |-> x, tokens0 |-> tb.tokens,
                             elapsed |-> tb.idle, ok |-> r.ok, wait |-> 0]
    /\ UNCHANGED tbparams
    /\ UNCHANGED notBucket

\* bucket.time_until_available(x): the bucket is refilled, and the call
\* returns a Duration or panics building it
BucketTimeUntilAvailable ==
    /\ tbparams # NoLimiter
    /\ \E x \in Asked :
          LET w == time_until_available(tbparams, tb, x)
          IN  /\ tb' = refill(tbparams, tb)
              /\ tbcall' = [fn |-> "time_until_available", x |-> x,
                             tokens0 |-> tb.tokens, elapsed |-> tb.idle,
                             ok |-> w # DurationPanic, wait |-> w]
    /\ UNCHANGED tbparams
    /\ UNCHANGED notBucket

TNext ==
    \/ BucketNew
    \/ BucketElapse
    \/ BucketRefill
    \/ BucketTryConsume
    \/ BucketTimeUntilAvailable

(***************************************************************************)
(* Command builders of Language (repl-api/src/lib.rs)                      *)
(*                                                                         *)
(* A String is a sequence of tokens: a token is a run of bytes without     *)
(* white space or quotes, a space, a single quote or a double quote.  The  *)
(* shell reads a script as the commands between `&&`, each a list of       *)
(* words, with the quotes removed from a word.                             *)
(***************************************************************************)
SQ == "'"
DQ == "\""

\* dependency names and code texts of the model
CommandDeps == {<<"requests">>, <<"numpy">>}
CodeTexts ==
    { <<"x">>,
      <<"import", SP, "os">>,
      <<"print(", SQ, "hello", SQ, ")">>,
      <<"puts", SP, DQ, "hi", DQ>> }

RECURSIVE SeqsUpTo(_, _)
SeqsUpTo(S, n) ==
    IF n = 0 THEN {<<>>}
    ELSE SeqsUpTo(S, n - 1) \cup
         {Append(s, e) : s \in {x \in SeqsUpTo(S, n - 1) : Len(x) = n - 1}, e \in S}

DepLists == SeqsUpTo(CommandDeps, MaxDeps)

\* [String]::join(sep)
RECURSIVE Join(_, _)
Join(strs, sep) ==
    IF strs = <<>> THEN <<>>
    ELSE IF Len(strs) = 1 THEN strs[1]
    ELSE strs[1] \o sep \o Join(Tail(strs), sep)

\* Language::install_dependencies_command
install_dependencies_command(language, dependencies) ==
    IF dependencies = <<>> THEN None
    ELSE LET deps == Join(dependencies, <<SP>>)
         IN  Some(CASE language = "Python" -> <<"pip", SP, "install", SP, "--quiet", SP>> \o deps
                    [] language = "Node" ->
                           <<"npm", SP, "install", SP, "--global", SP, "--quiet", SP>> \o deps
                    [] language = "Rust" -> <<"cargo", SP, "install", SP, "--quiet", SP>> \o deps
                    [] language = "Go" -> <<"go", SP, "install", SP>> \o deps \o <<"@latest">>
                    [] language = "Ruby" -> <<"gem", SP, "install", SP, "--quiet", SP>> \o deps)

\* Language::execute_command
execute_command(language, code) ==
    CASE language = "Python" -> << <<"python">>, <<"-c">>, code >>
      [] language = "Node" -> << <<"node">>, <<"-e">>, code >>
      [] language = "Rust" ->
             << <<"sh">>, <<"-c">>,
                <<"echo", SP, SQ>> \o code \o
                <<SQ, SP, ">", SP, "/tmp/main.rs", SP, "&&", SP, "rustc", SP, "/tmp/main.rs",
                  SP, "-o", SP, "/tmp/prog", SP, "&&", SP, "/tmp/prog">> >>
      [] language = "Go" ->
             << <<"sh">>, <<"-c">>,
                <<"echo", SP, SQ>> \o code \o
                <<SQ, SP, ">", SP, "/tmp/main.go", SP, "&&", SP, "go", SP, "run", SP,
                  "/tmp/main.go">> >>
      [] language = "Ruby" -> << <<"ruby">>, <<"-e">>, code >>

\* a builder that joins the parts of every execute command
BuildAlwaysJoined(language, code, dependencies) ==
    LET install_cmd == install_dependencies_command(language, dependencies)
        execute_cmd_parts == execute_command(language, code)
    IN  IF install_cmd.some
        THEN << <<"sh">>, <<"-c">>,
                install_cmd.value \o <<SP, "&&", SP>> \o Join(execute_cmd_parts, <<SP>>) >>
        ELSE execute_cmd_parts

\* Language::build_command_with_dependencies
build_command_with_dependencies(language, code, dependencies) ==
    LET install_cmd == install_dependencies_command(language, dependencies)
        execute_cmd_parts == execute_command(language, code)
        combined ==
            IF execute_cmd_parts[1] = <<"sh">> /\ Len(execute_cmd_parts) = 3
            THEN install_cmd.value \o <<SP, "&&", SP>> \o execute_cmd_parts[3]
            ELSE install_cmd.value \o <<SP, "&&", SP>> \o Join(execute_cmd_parts, <<SP>>)
    IN  IF install_cmd.some
        THEN << <<"sh">>, <<"-c">>, combined >>
        ELSE execute_cmd_parts

\* what `sh -c script` runs: the commands of the script, each the list of its
\* words.  mode is "plain", "single" (inside '..') or "double" (inside "..");
\* cur is the word being read and open tells whether there is one.
RECURSIVE ShellParse(_, _, _, _, _, _, _)
ShellParse(script, i, mode, cur, open, words, cmds) ==
    LET closed == IF open THEN Append(words, cur) ELSE words
    IN  IF i > Len(script) THEN Append(cmds, closed)
        ELSE LET t == script[i]
             IN  CASE mode = "plain" /\ t = SP ->
                          ShellParse(script, i + 1, "plain", <<>>, FALSE, closed, cmds)
                   [] mode = "plain" /\ t = "&&" ->
                          ShellParse(script, i + 1, "plain", <<>>, FALSE, <<>>, Append(cmds, closed))
                   [] mode = "plain" /\ t = SQ ->
                          ShellParse(script, i + 1, "single", cur, TRUE, words, cmds)
                   [] mode = "plain" /\ t = DQ ->
                          ShellParse(script, i + 1, "double", cur, TRUE, words, cmds)
                   [] mode = "single" /\ t = SQ ->
                          ShellParse(script, i + 1, "plain", cur, TRUE, words, cmds)
                   [] mode = "double" /\ t = DQ ->
                          ShellParse(script, i + 1, "plain", cur, TRUE, words, cmds)
                   [] OTHER ->
                          ShellParse(script, i + 1, mode, Append(cur, t), TRUE, words, cmds)

ShellCommands(script) == ShellParse(script, 1, "plain", <<>>, FALSE, <<>>, <<>>)

NoCall == [fn |-> "none", language |-> "none", code |-> <<>>, dependencies |-> <<>>]

XInit ==
    /\ call = NoCall
    /\ ret = <<>>

InstallDependenciesCommand ==
    /\ \E l \in Languages, deps \in DepLists :
          /\ call' = [fn |-> "install_dependencies_command", language |-> l,
                      code |-> <<>>, dependencies |-> deps]
          /\ ret' = install_dependencies_command(l, deps)
    /\ UNCHANGED notCommand

ExecuteCommand ==
    /\ \E l \in Languages, code \in CodeTexts :
          /\ call' = [fn |-> "execute_command", language |-> l,
                      code |-> code, dependencies |-> <<>>]
          /\ ret' = execute_command(l, code)
    /\ UNCHANGED notCommand

BuildCommandWithDependencies ==
    /\ \E l \in Languages, code \in CodeTexts, deps \in DepLists :
          /\ call' = [fn |-> "build_command_with_dependencies", language |-> l,
                      code |-> code, dependencies |-> deps]
          /\ ret' = build_command_with_dependencies(l, code, deps)
    /\ UNCHANGED notCommand

XNext ==
    \/ InstallDependenciesCommand
    \/ ExecuteCommand
    \/ BuildCommandWithDependencies

Init == CInit /\ BInit /\ RInit /\ MInit /\ LInit /\ TInit /\ XInit

SpecController == Init /\ [][CNext]_vars

SpecBroker == Init /\ [][BNext]_vars

SpecRegistry == Init /\ [][RNext]_vars

SpecBootstrap == Init /\ [][BootNext]_vars

\* Every request bootstrap_service sends is answered or fails, and its sleeps
\* end: time passes, a sleep that is over is left, and a registration attempt
\* that is due is made.
SpecBootstrapFair ==
    /\ SpecBootstrap
    /\ WF_vars(Tick)
    /\ WF_vars(BootRetry)
    /\ WF_vars(BootRegisterNetworkError \/ BootRegisterMalformed \/ BootRegister)

\* The Mutex grants the guard when it is free, a task that holds it goes on,
\* and the store answers every call.
SpecLock ==
    /\ Init /\ [][MNext]_vars
    /\ \A t \in Tasks :
          /\ WF_vars(Acquire(t))
          /\ WF_vars(StoreCall(t))
          /\ WF_vars(StoreReturn(t))
          /\ WF_vars(Unlock(t))

SpecLimiter == Init /\ [][LNext]_vars

SpecBucket == Init /\ [][TNext]_vars

SpecCommand == Init /\ [][XNext]_vars

(***************************************************************************)
(* Properties                                                              *)
(***************************************************************************)
Range(seq) == {seq[i] : i \in DOMAIN seq}

\* the runtime's create succeeded for this request
ContainerCreated == cstate # "none"

\* C1: when the unary create handler of container-api has returned and the
\* runtime's create had succeeded, remove was invoked on the container exactly
\* once, whichever of start, wait or logs failed.
C1_UnaryRemovesOnce ==
    (cmode = "unary" /\ cpc = "done" /\ ContainerCreated) => Count(rtcalls, "remove") = 1

\* C2: when the stream of create_container_stream has ended and the runtime's
\* create had succeeded, remove was invoked on the container exactly once,
\* also when attach, start or reading the output failed.
C2_StreamRemovesOnce ==
    (cmode = "stream" /\ cpc = "end" /\ ContainerCreated) => Count(rtcalls, "remove") = 1

\* C3: in execute_repl and execute_repl_stream validate_code runs before any
\* registry lookup and before any request to the controller, and a payload
\* whose verdict is not safe causes no request to the controller.
C3_ValidateFirst ==
    /\ \A i \in DOMAIN blog :
          blog[i] \in {"lookup", "create_request"} => \E j \in 1..(i - 1) : blog[j] = "validate"
    /\ "validate" \in Range(blog) =>
          bverdict = validate_code(bpayload.code, bpayload.language, bpayload.dependencies)
    /\ ~bverdict.is_safe => "create_request" \notin Range(blog)

\* execute_repl has validated a payload, found it unsafe and answered 403
\* without a lookup and without a request to the controller
C3_Witness ==
    /\ bpc = "done" /\ ~bverdict.is_safe
    /\ blog = <<"validate">>
    /\ bstatus = 403

\* C4: when the client has disconnected from a create/stream response after
\* the container was created, the controller has still run wait and remove on
\* that container.
C4_DisconnectStillCleansUp ==
    (cmode = "stream" /\ cpc = "dropped" /\ ContainerCreated) =>
        (Count(rtcalls, "wait") = 1 /\ Count(rtcalls, "remove") = 1)

ErrorEvents == {ErrorEvent(w) : w \in {"connect", "pull", "create", "attach", "start", "read"}}

\* C5: a create/stream response that has ended holds the done event exactly
\* once, as its last event, on the normal path and on every failure path; on a
\* failure path there is exactly one ERROR event and it comes right before done.
C5_DoneOnEveryPath ==
    (cmode = "stream" /\ cpc = "end") =>
        /\ Count(events, DoneEvent) = 1
        /\ events[Len(events)] = DoneEvent
        /\ \A i \in DOMAIN events : events[i] \in ErrorEvents => i = Len(events) - 1

\* C6: a request to POST /api/repl/execute or /api/repl/execute/stream passes
\* the rate-limit check before anything else: whatever the request went
\* through, the rate-limit check was the first of it, and a request answered
\* 429 was never validated.
C6_RateLimitFirst ==
    /\ blog # <<>> => blog[1] = "rate_limit"
    /\ bstatus = 429 => "validate" \notin Range(blog)

\* C7: for the latest register of a service key that was not deregistered
\* since: while the lease of that register is live, get_services(name) and
\* get_all_services contain the registered service; once LeaseTTL seconds have
\* gone since the register, they contain it only if the lease was kept alive
\* and is still live.
C7_LeaseBoundsVisibility ==
    \A k \in Keys :
        (lastReg[k].lease # 0 /\ ~deregd[k]) =>
            LET l == lastReg[k].lease
                s == lastReg[k].info
            IN  /\ Live(l) => (s \in get_services(s.name) /\ s \in get_all_services)
                /\ (lastReg[k].age >= LeaseTTL /\ ~(Live(l) /\ leases[l].refreshed)) =>
                       (s \notin get_services(s.name) /\ s \notin get_all_services)

\* a register was followed by no keep-alive, LeaseTTL seconds have gone and
\* the service has disappeared from both listings
C7_Witness ==
    \E k \in Keys :
        /\ lastReg[k].lease # 0 /\ ~deregd[k]
        /\ lastReg[k].age >= LeaseTTL
        /\ leases[lastReg[k].lease] = GoneLease
        /\ lastReg[k].info \notin get_all_services
        /\ \E k2 \in Keys : k2 # k /\ lastReg[k2].lease # 0 /\ ~deregd[k2]
                             /\ lastReg[k2].info \in get_services(lastReg[k2].info.name)

\* the keep-alive loop runs and no keep-alive of it has failed
LoopHealthy == kpc = "sleep" /\ kMissed.transport = 0 /\ kMissed.server = 0

\* C8: while the bootstrap keep-alive loop runs and every keep-alive of it has
\* succeeded, the service is in the result of get_services (a keep-alive
\* reaches the registry within MaxLatency seconds of the end of the sleep).
C8_KeepAliveKeepsVisible ==
    LoopHealthy => BootService \in get_services(BootService.name)

\* the loop has refreshed the lease and the service has outlived one TTL
C8_Witness ==
    /\ LoopHealthy
    /\ leases[kLease].refreshed
    /\ lastReg[service_key(BootService)].age >= LeaseTTL
    /\ BootService \in get_services(BootService.name)

\* C9: with at most one failed keep-alive since bootstrap_service registered
\* the service, the registration has not expired.
C9_OneMissTolerated ==
    (kpc \in {"sleep", "stopped"} /\ kMissed.transport + kMissed.server <= 1) =>
        BootService \in get_services(BootService.name)

\* C10: whatever handler created a container, it asked for private network,
\* pid and ipc namespaces, systemd off and sdnotify ignore.
C10_PrivateNamespaces ==
    createOpts # NoOpts =>
        /\ createOpts.net = "private" /\ createOpts.pid = "private" /\ createOpts.ipc = "private"
        /\ createOpts.systemd = "false" /\ createOpts.sdnotify = "ignore"

\* C11 as stated: whenever the unary create handler of container-api answers
\* 200, the container the call created has been removed from the runtime.
C11_RemovedOn200 ==
    (cmode = "unary" /\ cresp = 200) => cstate = "removed"

\* C11: whenever the unary create handler of container-api answers 200, the
\* call created exactly one container, the container has exited, and remove
\* was invoked on it exactly once, as the last runtime call; the runtime has
\* removed it unless that remove failed.
C11_RemoveInvokedOn200 ==
    (cmode = "unary" /\ cresp = 200) =>
        /\ Count(rtcalls, "create") = 1
        /\ Count(rtcalls, "remove") = 1
        /\ rtcalls[Len(rtcalls)] = "remove"
        /\ cstate \in {"removed", "exited"}

\* the handler answered 200 although the runtime's remove had failed
C11_Witness ==
    cmode = "unary" /\ cresp = 200 /\ cstate = "exited" /\ Count(rtcalls, "remove") = 1

\* C12: in create/stream, when the pull failed, the response that has ended
\* consists of exactly one event, the pull ERROR event; and a response that has
\* ended gets no further event.
C12_PullErrorOnly ==
    /\ (cmode = "stream" /\ ErrorEvent("pull") \in Range(events)) =>
           (events = <<ErrorEvent("pull")>> /\ cpc \in {"end", "dropped"})
    /\ (cmode = "stream" /\ cpc = "end") => ~ENABLED StreamDone

\* the pull failed and the stream has ended with the one ERROR event
C12_Witness ==
    /\ cmode = "stream" /\ cpc = "end"
    /\ events = <<ErrorEvent("pull")>>
    /\ rtcalls = <<"pull">>

\* the data payloads of a sequence of broker events, in order
RECURSIVE DataTexts(_)
DataTexts(evs) ==
    IF evs = <<>> THEN <<>>
    ELSE (IF Head(evs).type = "data" THEN <<Head(evs).text>> ELSE <<>>)
             \o DataTexts(Tail(evs))

\* the broker has received the whole body of the controller without an error
ForwardedAll ==
    /\ bmode = "stream" /\ bpc = "done"
    /\ "create_request" \in Range(blog)
    /\ upstream = <<>>
    /\ \A i \in DOMAIN bevents : bevents[i].text = <<>> \/ bevents[i].text[1] # "ERROR"

\* C13: when streaming execute has forwarded the whole body of the controller,
\* the data payloads it emitted are the payloads of the controller's data
\* events, same bytes and same order, however the body was cut into chunks.
C13_ForwardsPayloads ==
    ForwardedAll => DataTexts(bevents) = DataPayloads(upEvents)

\* C14: in streaming execute the broker's done event is the last event of its
\* response: it emits no data event and no second done after it.
C14_DoneIsLast ==
    bmode = "stream" => \A i \in DOMAIN bevents : bevents[i] = BDone => i = Len(bevents)

Blocking(verdict) == {i \in DOMAIN verdict.violations : verdict.violations[i].should_block}

\* C18: the verdict of validate_code has is_safe = TRUE exactly when no
\* violation of its list has should_block = TRUE.
C18_SafeIffNoBlocking ==
    "validate" \in Range(blog) => (bverdict.is_safe <=> Blocking(bverdict) = {})

\* a verdict with a blocking and a non-blocking violation, and one with
\* warnings only that is safe, have been returned
C18_Witness ==
    /\ "validate" \in Range(blog)
    /\ ~bverdict.is_safe
    /\ Blocking(bverdict) # {}
    /\ Blocking(bverdict) # DOMAIN bverdict.violations
    /\ \E i \in Blocking(bverdict) : bverdict.violations[i].severity = "High"

\* C19: a request to an execute endpoint, unary or streaming, whose verdict is
\* not safe is answered with HTTP 403.
C19_Blocked403 ==
    (bpc = "done" /\ "validate" \in Range(blog) /\ ~bverdict.is_safe) => bstatus = 403

\* C20: validate_code rejects the fork-bomb payload `:(){ :|:& };:` in every
\* language: the verdict is not safe and holds a blocking violation whose
\* description contains "Fork bomb".
C20_ForkBombRejected ==
    (bpayload \in ForkBombPayloads /\ "validate" \in Range(blog)) =>
        /\ ~bverdict.is_safe
        /\ \E i \in Blocking(bverdict) :
              bverdict.violations[i].description = "Fork bomb pattern detected"

\* less than one token has been refilled since the first request of ip
WithinOneToken(ip) == since[ip] * RefillPerTick(limiter) < TokenScale

\* C15: for a fresh limiter and one IP, of burst_size + 1 requests that arrive
\* while less than one token has been refilled in total, exactly the first
\* burst_size are allowed and the next one is denied.
C15_BurstThenDenied ==
    \A ip \in IPs :
        (limiter # NoLimiter /\ WithinOneToken(ip)) =>
            \A i \in DOMAIN decisions[ip] :
                i <= limiter.capacity + 1 =>
                    (decisions[ip][i].status = 200 <=> i <= limiter.capacity)

\* a burst of two and the denied third request, with part of a token refilled
\* on the way
C15_Witness ==
    \E ip \in IPs :
        /\ limiter.capacity >= 2
        /\ since[ip] >= 1
        /\ WithinOneToken(ip)
        /\ Len(decisions[ip]) = limiter.capacity + 1
        /\ decisions[ip][Len(decisions[ip])].status = 429

\* ceil((1 - tokens) / refill_rate), in whole seconds
CeilRetryAfter(lim, tokens) ==
    ((TokenScale - tokens) * 60 + TokenScale * lim.requests_per_minute - 1)
        \div (TokenScale * lim.requests_per_minute)

\* C16: a denied request is answered 429 with Retry-After equal to
\* ceil((1 - tokens) / refill_rate) whole seconds, which is at least 1.
C16_RetryAfterCeil ==
    \A ip \in IPs : \A i \in DOMAIN decisions[ip] :
        decisions[ip][i].status = 429 =>
            /\ decisions[ip][i].retry_after = CeilRetryAfter(limiter, decisions[ip][i].tokens)
            /\ decisions[ip][i].retry_after >= 1

\* C17: a request of one IP leaves the bucket and the decisions of every
\* other IP as they are, and its own decision and token count are those its
\* own bucket (a full one if it has none) gives, whatever the other buckets
\* hold.
C17_OnlyOwnBucket ==
    [][\A a \in IPs :
          Len(decisions'[a]) > Len(decisions[a]) =>
              LET own == refill(limiter,
                                IF buckets[a] = NoBucket
                                THEN TokenBucketNew(limiter)
                                ELSE buckets[a])
                  allowed == own.tokens >= TokenScale
              IN  /\ \A b \in IPs \ {a} :
                        buckets'[b] = buckets[b] /\ decisions'[b] = decisions[b]
                  /\ decisions'[a][Len(decisions'[a])].status = (IF allowed THEN 200 ELSE 429)
                  /\ buckets'[a].tokens = (IF allowed THEN own.tokens - TokenScale ELSE own.tokens)
      ]_vars

\* one IP has used up its burst and was denied, and the other IP's first
\* request, sent at that time, was allowed on a full bucket
C17_Witness ==
    \E a \in IPs, b \in IPs :
        /\ a # b
        /\ Len(decisions[a]) = limiter.capacity + 1
        /\ decisions[a][Len(decisions[a])].status = 429
        /\ since[a] >= 1
        /\ since[b] = 0
        /\ Len(decisions[b]) = 1
        /\ decisions[b][1].status = 200
        /\ decisions[b][1].tokens = CapacityParts(limiter)

SizeViolation == Violation("Code size exceeds maximum allowed size", "High", TRUE)
CountViolation == Violation("Number of dependencies exceeds maximum allowed", "Medium", TRUE)

\* C21: validate_code raises no size violation for code of exactly 1,048,576
\* bytes or for exactly 20 dependencies, and raises a blocking violation
\* (is_safe = FALSE) for code of 1,048,577 bytes and for 21 dependencies.
C21_LimitsAreInclusive ==
    "validate" \in Range(blog) =>
        /\ SizeViolation \in Range(bverdict.violations) <=> bpayload.code.len >= 1048577
        /\ CountViolation \in Range(bverdict.violations) <=> Len(bpayload.dependencies) >= 21
        /\ (bpayload.code.len >= 1048577 \/ Len(bpayload.dependencies) >= 21) =>
               ~bverdict.is_safe

\* code of exactly 1,048,576 bytes with exactly 20 dependencies was found safe
C21_Witness ==
    /\ "validate" \in Range(blog)
    /\ bpayload.code.len = 1048576
    /\ Len(bpayload.dependencies) = 20
    /\ bverdict.is_safe
    /\ bverdict.violations = <<>>

ImportDescription == "Potentially dangerous import/pattern detected"
PatternDescriptions == {DangerousPatterns[i].description : i \in DOMAIN DangerousPatterns}

\* C22 as stated: every violation has should_block = (severity is Critical
\* or High), except the language-symbol violations, which never block.
C22_BlockBySeverity ==
    "validate" \in Range(blog) =>
        \A i \in DOMAIN bverdict.violations :
            LET v == bverdict.violations[i]
            IN  IF v.description = ImportDescription
                THEN ~v.should_block
                ELSE v.should_block <=> v.severity \in {"Critical", "High"}

\* C22: every violation of the pattern catalogue has should_block = (severity
\* is Critical or High) and language-symbol violations never block, while the
\* size, dependency-count and suspicious-dependency violations always block,
\* the dependency-count one at severity Medium; code within the limits that
\* triggers only Medium patterns or language symbols gets is_safe = TRUE.
C22_BlockBySeverityOfPatterns ==
    "validate" \in Range(blog) =>
        /\ \A i \in DOMAIN bverdict.violations :
              LET v == bverdict.violations[i]
              IN  CASE v.description = ImportDescription -> ~v.should_block
                    [] v.description \in PatternDescriptions ->
                           (v.should_block <=> v.severity \in {"Critical", "High"})
                    [] OTHER -> v.should_block
        /\ (\A i \in DOMAIN bverdict.violations :
               \/ bverdict.violations[i].description = ImportDescription
               \/ /\ bverdict.violations[i].description \in PatternDescriptions
                  /\ bverdict.violations[i].severity = "Medium") => bverdict.is_safe
        /\ CountViolation \in Range(bverdict.violations) =>
               (CountViolation.severity = "Medium" /\ ~bverdict.is_safe)

\* a verdict with a Medium pattern and a language symbol only, which is safe
C22_Witness ==
    /\ "validate" \in Range(blog)
    /\ bverdict.is_safe
    /\ \E i \in DOMAIN bverdict.violations :
          bverdict.violations[i].description = ImportDescription
    /\ \E i \in DOMAIN bverdict.violations :
          /\ bverdict.violations[i].description \in PatternDescriptions
          /\ bverdict.violations[i].severity = "Medium"

Built == call.fn = "build_command_with_dependencies" /\ call.dependencies # <<>>

\* C23: for every language, every code and every non-empty dependency list,
\* build_command_with_dependencies returns exactly ["sh", "-c", script], where
\* script is the install command, then " && ", then the execute command: the
\* existing script for the sh-based languages (Rust, Go), the space-joined
\* parts otherwise.
C23_InstallThenExecute ==
    Built =>
        LET install == install_dependencies_command(call.language, call.dependencies).value
            parts == execute_command(call.language, call.code)
            exec == IF call.language \in {"Rust", "Go"}
                    THEN parts[3]
                    ELSE parts[1] \o <<SP>> \o parts[2] \o <<SP>> \o parts[3]
        IN  /\ install # <<>>
            /\ ret = << <<"sh">>, <<"-c">>, install \o <<SP, "&&", SP>> \o exec >>

\* a Rust command with two dependencies has been built
C23_Witness ==
    /\ Built
    /\ call.language = "Rust"
    /\ Len(call.dependencies) = 2
    /\ Len(ret) = 3
    /\ ret[1] = <<"sh">>

Interpreter(language) ==
    CASE language = "Python" -> << <<"python">>, <<"-c">> >>
      [] language = "Node" -> << <<"node">>, <<"-e">> >>
      [] language = "Ruby" -> << <<"ruby">>, <<"-e">> >>

\* C24: for Python, Node and Ruby with a non-empty dependency list, the shell's
\* word-splitting of the script yields, for the command after the install
\* command, the interpreter, its flag and the submitted code unchanged as one
\* word.
C24_CodeIsOneWord ==
    (Built /\ call.language \in {"Python", "Node", "Ruby"}) =>
        LET cmds == ShellCommands(ret[3])
        IN  /\ Len(cmds) = 2
            /\ cmds[2] = Interpreter(call.language) \o <<call.code>>

\* C25: for Go and every non-empty dependency list, the words of the install
\* command after `go install` are the dependencies, each followed by @latest.
C25_EveryDepAtLatest ==
    (call.fn = "install_dependencies_command" /\ call.language = "Go"
         /\ call.dependencies # <<>>) =>
        LET words == ShellCommands(ret.value)[1]
        IN  /\ Len(words) = 2 + Len(call.dependencies)
            /\ \A i \in DOMAIN call.dependencies :
                  words[2 + i] = call.dependencies[i] \o <<"@latest">>

\* bootstrap_service has returned and its keep-alive task exists
BootReturned == kpc \in {"sleep", "stopped"}

\* C26: bootstrap_service sends at most 30 registration requests and always
\* ends: it returns the lease_id of the first well-formed response, or aborts
\* the process when the 30th attempt also fails; the keep-alive loop exists
\* only after a registration succeeded and uses the lease_id it returned.
C26_BoundedRegistration ==
    /\ [](attempts <= 30)
    /\ [](kpc = "panicked" => (attempts = 30 /\ kLease = 0))
    /\ [](BootReturned =>
             /\ kLease # 0
             /\ lastReg[service_key(BootService)].lease = kLease)
    /\ [](~BootReturned /\ kpc # "panicked" => kLease = 0)
    /\ [][kLease # 0 => (kLease' = kLease /\ attempts' = attempts)]_vars
    /\ <>(BootReturned \/ kpc = "panicked")

\* the 30th registration request was the first to get a well-formed response
C26_Witness ==
    /\ kpc = "sleep"
    /\ attempts = 30
    /\ kLease # 0

\* C27: a failed or empty registry lookup never fails an execute request.
\* When the lookup's request fails, is answered with a non-2xx status, an
\* unparsable body or an empty list, the handler goes on to its create request
\* with CONTAINERS_API_URL when that is set and http://localhost:3000
\* otherwise; when the lookup returns entries, with the first entry's
\* http://<address>:<port>.
C27_LookupNeverFails ==
    /\ bpc = "request" =>
          /\ blookup \in LookupResponses
          /\ bsuccess = "unset" /\ bstatus \in {0, 200} /\ bevents = <<>>
          /\ burl = (IF blookup.kind = "ok" /\ Len(blookup.services) >= 1
                     THEN <<"http://", blookup.services[1].address, ":",
                            blookup.services[1].port>>
                     ELSE IF benv # "unset" THEN <<benv>>
                     ELSE <<"http://localhost:3000">>)
    /\ "create_request" \in Range(blog) => burl # <<>>
    /\ (blog # <<>> /\ blog[Len(blog)] = "lookup") => bpc = "request"

\* the registry could not be reached and CONTAINERS_API_URL is used
C27_Witness ==
    /\ bpc = "request"
    /\ blookup.kind = "network_error"
    /\ benv # "unset"
    /\ burl = <<benv>>

\* C28: one execute request causes at most one create request to the
\* container controller, and a unary request whose create request failed in
\* transport, got a non-2xx status or an unparsable body is answered with 500
\* and success = false.
C28_AtMostOneCreate ==
    /\ Count(blog, "create_request") <= 1
    /\ (bmode = "unary" /\ Range(blog) \cap {"send_error", "non_2xx", "bad_body"} # {}) =>
           (bpc = "done" /\ bstatus = 500 /\ bsuccess = "false")

\* a unary request whose one create request got an unparsable body
C28_Witness ==
    /\ bmode = "unary"
    /\ bpc = "done"
    /\ Count(blog, "create_request") = 1
    /\ "bad_body" \in Range(blog)
    /\ bstatus = 500

\* positions of a runtime call in the handler's calls
Positions(name) == {i \in DOMAIN rtcalls : rtcalls[i] = name}

\* C29: in unary and in streaming create, the runtime's create is invoked only
\* after the pull progress stream has ended without any error item; when an
\* item carries an error or the transport fails, the handler stops at that
\* item and create is never invoked.
C29_CreateAfterPullDrained ==
    /\ []((cmode \in {"unary", "stream"} /\ (cpc = "create" \/ "create" \in Range(rtcalls))) =>
             /\ pullLeft = 0
             /\ ErrorEvent("pull") \notin Range(events)
             /\ \A i \in Positions("create") : i > 1 /\ rtcalls[i - 1] = "pull")
    /\ [][(cmode \in {"unary", "stream"} /\ cpc = "pull" /\ cpc' # "pull") =>
             \/ pullLeft = 0 /\ cpc' = "create" /\ events' = events /\ cresp' = cresp
             \/ /\ cpc' \in {"done", "end", "dropped"}
                /\ rtcalls' = rtcalls
                /\ "create" \notin Range(rtcalls)]_vars
    /\ [][(cmode \in {"unary", "stream"} /\ cpc \in {"done", "end", "dropped"}) =>
             rtcalls' = rtcalls]_vars

\* the unary handler stopped at a progress item and has answered 500 with no
\* create, and the stream still held items
C29_Witness ==
    /\ cmode = "unary"
    /\ cpc = "done" /\ cresp = 500
    /\ pullLeft > 0
    /\ rtcalls = <<"pull">>

\* C30: in create/stream, attach is called and has succeeded before start is
\* called; start is never called on a container whose attach failed.
C30_AttachBeforeStart ==
    cmode = "stream" =>
        /\ \A i \in Positions("start") : i > 1 /\ rtcalls[i - 1] = "attach"
        /\ (cpc = "start" \/ "start" \in Range(rtcalls)) =>
               ErrorEvent("attach") \notin Range(events)
        /\ ErrorEvent("attach") \in Range(events) =>
               ("start" \notin Range(rtcalls) /\ cpc \in {"end", "dropped"})

\* the container was started after a successful attach
C30_Witness ==
    /\ cmode = "stream"
    /\ cstate = "running"
    /\ rtcalls = <<"pull", "create", "attach", "start">>

\* the texts of the output events among evs, in order
RECURSIVE OutputTexts(_)
OutputTexts(evs) ==
    IF evs = <<>> THEN <<>>
    ELSE (IF evs[1].what = "output" THEN <<evs[1].text>> ELSE <<>>) \o OutputTexts(Tail(evs))

\* the non-empty chunks among chunks, in order
RECURSIVE NonEmpty(_)
NonEmpty(chunks) ==
    IF chunks = <<>> THEN <<>>
    ELSE (IF chunks[1] # "" THEN <<chunks[1]>> ELSE <<>>) \o NonEmpty(Tail(chunks))

\* C31: in create/stream, every non-empty output chunk read from the attached
\* stream is emitted as a data event, in arrival order, all of them before the
\* done event, and no event is emitted after done.
C31_ChunksInOrderBeforeDone ==
    cmode = "stream" =>
        /\ OutputTexts(events) = NonEmpty(chunksRead)
        /\ \A i \in DOMAIN events : events[i] = DoneEvent => i = Len(events)
        /\ DoneEvent \in Range(events) => cpc = "end"

\* two chunks were read and emitted in their order, and done followed
C31_Witness ==
    /\ cmode = "stream"
    /\ chunksRead = <<"b", "a">>
    /\ events = <<DataEvent("b"), DataEvent("a"), DoneEvent>>

\* C32: whatever refill, try_consume and time_until_available calls were made
\* on a TokenBucket of capacity > 0 and refill_rate >= 0, its tokens are at
\* least 0 and at most its capacity.
C32_TokensWithinCapacity ==
    tbparams # NoLimiter =>
        /\ 0 <= tb.tokens
        /\ tb.tokens <= CapacityParts(tbparams)

\* a try_consume took the last tokens of a bucket that a refill had filled
C32_Witness ==
    /\ tbcall.fn = "try_consume"
    /\ tbcall.ok
    /\ tbcall.x > 0
    /\ tbcall.tokens0 + tbcall.elapsed * RefillPerTick(tbparams) > CapacityParts(tbparams)
    /\ tb.tokens = 0

\* tokens0 + D * refill_rate capped at capacity, for the latest call
Refilled == Min(CapacityParts(tbparams),
                tbcall.tokens0 + tbcall.elapsed * (tbparams.requests_per_minute \div 60))

\* C33: refill after D seconds leaves min(capacity, tokens0 + D * refill_rate)
\* tokens; try_consume(x) succeeds exactly when that count is at least x,
\* then leaves x tokens less, and leaves that count when it fails.
C33_RefillThenConsume ==
    /\ tbcall.fn = "refill" => tb.tokens = Refilled
    /\ tbcall.fn = "try_consume" =>
          /\ tbcall.ok <=> Refilled >= tbcall.x * TokenScale
          /\ tb.tokens = IF tbcall.ok THEN Refilled - tbcall.x * TokenScale
                                      ELSE Refilled

\* a try_consume failed on a bucket that time had partly refilled
C33_Witness ==
    /\ tbcall.fn = "try_consume"
    /\ ~tbcall.ok
    /\ tbcall.elapsed > 0
    /\ tbcall.tokens0 < tb.tokens
    /\ tb.tokens < CapacityParts(tbparams)

\* C34: the keep-alive loop of bootstrap_service has stopped once a keep-alive
\* has failed, be it in transport or with an error response of the registry.
C34_StopsAfterFirstFailure ==
    kMissed.transport + kMissed.server > 0 => kpc = "stopped"

\* C35: a registration attempt that fails and is not the last one is followed
\* by the wait of RetryInterval seconds before the next attempt, whatever
\* made it fail.
C35_WaitBetweenAttempts ==
    [][(attempts' = attempts + 1 /\ kpc' \notin {"sleep", "panicked"})
          => (kpc' = "retry_sleep" /\ kSleep' = RetryInterval)]_vars

\* C40: the registry answers a keep-alive with 200 only when the store
\* extended the lease.
C40_SuccessMeansExtended ==
    kaReply.status = 200 => kaReply.extended

\* the tasks with a store call in flight
InFlight == {t \in Tasks : task[t].pc = "rpc"}

\* C36: at most one store call of the registry service is in flight at any
\* time, the task that makes it holds the lock, and every task that waits
\* for the lock gets it.
C36_OneStoreCallAtATime ==
    /\ [](Cardinality(InFlight) <= 1 /\ \A t \in InFlight : mutex = t)
    /\ \A t \in Tasks : (task[t].pc = "waiting") ~> (task[t].pc = "locked")

\* the loop has its second store call in flight while every handler waits
C36_Witness ==
    /\ task[KeepAliveLoop].pc = "rpc"
    /\ task[KeepAliveLoop].left = 2
    /\ \A h \in Handlers : task[h].pc = "waiting"

\* C37: after a run of the cleanup task the map holds no bucket whose IP has
\* sent no request for more than CleanupAge seconds and that would be full
\* again by now.
C37_StaleBucketsRemoved ==
    swept =>
        \A ip \in IPs :
            ~ /\ buckets[ip] # NoBucket
              /\ buckets[ip].idle > CleanupAge * Resolution
              /\ refill(limiter, buckets[ip]).tokens >= CapacityParts(limiter)

\* what the limiter would answer ip now, on the map given
Decision(map, ip) ==
    LET r == check_rate_limit(limiter, map, ip)
    IN  <<r.ok, r.retry_after>>

\* C38: at any time the limiter decides a request of any IP as a limiter
\* that got the same requests and never evicted a bucket would.
C38_EvictionKeepsDecisions ==
    limiter # NoLimiter =>
        \A ip \in IPs : Decision(buckets, ip) = Decision(reference, ip)

\* the cleanup task has evicted the bucket of an IP that had sent requests
C38_Witness ==
    \E ip \in IPs :
        /\ decisions[ip] # <<>>
        /\ buckets[ip] = NoBucket
        /\ reference[ip] # NoBucket
        /\ reference[ip].idle > CleanupAge * Resolution

\* the requests of ip that were allowed
Allowed(ip) ==
    Cardinality({i \in DOMAIN decisions[ip] : decisions[ip][i].status = 200})

\* C39: the tokens handed to the allowed requests of an IP, with those its
\* bucket still holds, never exceed burst_size plus what has been refilled
\* since its first request.
C39_NoTokenSpentTwice ==
    \A ip \in IPs :
        buckets[ip] # NoBucket =>
            Allowed(ip) * TokenScale + buckets[ip].tokens
                <= CapacityParts(limiter) + since[ip] * RefillPerTick(limiter)

\* with a burst of one, a second request was allowed on the token refilled
\* after a request had been denied, and the cleanup task has run
C39_Witness ==
    \E ip \in IPs :
        /\ limiter.capacity = 1
        /\ Len(decisions[ip]) = 3
        /\ decisions[ip][1].status = 200
        /\ decisions[ip][2].status = 429
        /\ decisions[ip][3].status = 200
        /\ since[ip] * RefillPerTick(limiter) = TokenScale
        /\ swept

====
